---- MODULE Spec2Model ----
(***************************************************************************)
(* Order-resolution engine of the agentcore workshop Lambda                *)
(* (prerequisite/lambda/python/track_order.py): the relative-date parser,  *)
(* the free-text search and the track_order resolver.                      *)
(*                                                                         *)
(* Text is a sequence of one-character strings, so that lower(), strip(),  *)
(* split(), the `in` substring test and the regular expressions are        *)
(* computed character by character as Python computes them.  A calendar    *)
(* day is its proleptic Gregorian ordinal (date.toordinal()); an ISO date  *)
(* string is the text strftime('%Y-%m-%d') produces.                       *)
(***************************************************************************)
EXTENDS Integers, Sequences, FiniteSets, TLC

VARIABLES now, store, parsed, call, searchCall, prev, thr, dicts,
          providers, ssmParam, cliRun, observed

\* the state beside the wall clock, the order store and the two kinds of call above
\* the account the credential-provider scripts work on, and the command running
cloud == <<providers, ssmParam, cliRun, observed>>

others == <<searchCall, prev, thr, dicts, cloud>>

vars == <<now, store, parsed, call, searchCall, prev, thr, dicts,
          providers, ssmParam, cliRun, observed>>

(***************************************************************************)
(* Characters and strings                                                  *)
(***************************************************************************)
S_last == <<"l", "a", "s", "t">>
S_ago == <<"a", "g", "o">>
S_day == <<"d", "a", "y">>
S_week == <<"w", "e", "e", "k">>
S_month == <<"m", "o", "n", "t", "h">>
S_yesterday == <<"y", "e", "s", "t", "e", "r", "d", "a", "y">>
S_monday == <<"m", "o", "n", "d", "a", "y">>
S_tuesday == <<"t", "u", "e", "s", "d", "a", "y">>
S_wednesday == <<"w", "e", "d", "n", "e", "s", "d", "a", "y">>
S_thursday == <<"t", "h", "u", "r", "s", "d", "a", "y">>
S_friday == <<"f", "r", "i", "d", "a", "y">>
S_saturday == <<"s", "a", "t", "u", "r", "d", "a", "y">>
S_sunday == <<"s", "u", "n", "d", "a", "y">>
S_iphone == <<"i", "p", "h", "o", "n", "e">>
S_macbook == <<"m", "a", "c", "b", "o", "o", "k">>
S_airpods == <<"a", "i", "r", "p", "o", "d", "s">>
S_ipad == <<"i", "p", "a", "d">>
S_watch == <<"w", "a", "t", "c", "h">>
S_tv == <<"t", "v">>
S_headphones == <<"h", "e", "a", "d", "p", "h", "o", "n", "e", "s">>
S_laptop == <<"l", "a", "p", "t", "o", "p">>
S_phone == <<"p", "h", "o", "n", "e">>
S_tablet == <<"t", "a", "b", "l", "e", "t">>
S_console == <<"c", "o", "n", "s", "o", "l", "e">>
S_playstation == <<"p", "l", "a", "y", "s", "t", "a", "t", "i", "o", "n">>
S_xbox == <<"x", "b", "o", "x">>
SP == <<" ">>
TAB == <<"\t">>

\* str.lower() on one character (ASCII letters; every other character is kept)
LowerChar(c) ==
    CASE c = "A" -> "a" [] c = "B" -> "b" [] c = "C" -> "c" [] c = "D" -> "d"
      [] c = "E" -> "e" [] c = "F" -> "f" [] c = "G" -> "g" [] c = "H" -> "h"
      [] c = "I" -> "i" [] c = "J" -> "j" [] c = "K" -> "k" [] c = "L" -> "l"
      [] c = "M" -> "m" [] c = "N" -> "n" [] c = "O" -> "o" [] c = "P" -> "p"
      [] c = "Q" -> "q" [] c = "R" -> "r" [] c = "S" -> "s" [] c = "T" -> "t"
      [] c = "U" -> "u" [] c = "V" -> "v" [] c = "W" -> "w" [] c = "X" -> "x"
      [] c = "Y" -> "y" [] c = "Z" -> "z" [] OTHER -> c

\* str.lower()
Lower(s) == [i \in 1..Len(s) |-> LowerChar(s[i])]

\* whitespace, as str.strip(), str.split() and the regex class \s see it
IsSpace(c) == c \in {" ", "\t", "\n"}

\* the regex class \d
IsDigit(c) == c \in {"0", "1", "2", "3", "4", "5", "6", "7", "8", "9"}

\* str.strip(): leading and trailing whitespace removed
Strip(s) ==
    LET inked == {i \in 1..Len(s) : ~IsSpace(s[i])}
        lo == CHOOSE i \in inked : \A j \in inked : i <= j
        hi == CHOOSE i \in inked : \A j \in inked : j <= i
    IN  IF inked = {} THEN <<>> ELSE SubSeq(s, lo, hi)

\* w occurs in s at position i
HasAt(s, i, w) == i >= 1 /\ i + Len(w) - 1 <= Len(s) /\ SubSeq(s, i, i + Len(w) - 1) = w

\* Python's `sub in s`
Contains(sub, s) == \E i \in 1..(Len(s) + 1) : HasAt(s, i, sub)

\* last index of the run of whitespace that starts at i (the greedy \s+)
SpaceRunEnd(s, i) ==
    CHOOSE j \in i..Len(s) :
        /\ \A k \in i..j : IsSpace(s[k])
        /\ (j = Len(s) \/ ~IsSpace(s[j + 1]))

\* last index of the run of digits that starts at i (the greedy \d+)
DigitRunEnd(s, i) ==
    CHOOSE j \in i..Len(s) :
        /\ \A k \in i..j : IsDigit(s[k])
        /\ (j = Len(s) \/ ~IsDigit(s[j + 1]))

\* last index of the word (run of non-whitespace) that starts at i
WordEnd(s, i) ==
    CHOOSE j \in i..Len(s) :
        /\ \A k \in i..j : ~IsSpace(s[k])
        /\ (j = Len(s) \/ IsSpace(s[j + 1]))

\* the regex fragment \s+ starting at p: 0 if it does not match, else the position after it
AfterSpaces(s, p) ==
    IF p >= 1 /\ p <= Len(s) /\ IsSpace(s[p]) THEN SpaceRunEnd(s, p) + 1 ELSE 0

\* int() of a digit string
RECURSIVE IntOf(_)
IntOf(ds) ==
    IF ds = <<>> THEN 0
    ELSE 10 * IntOf(SubSeq(ds, 1, Len(ds) - 1))
         + (CHOOSE v \in 0..9 :
               ds[Len(ds)] = <<"0", "1", "2", "3", "4", "5", "6", "7", "8", "9">>[v + 1])

Min(S) == CHOOSE x \in S : \A y \in S : x <= y

(***************************************************************************)
(* Calendar: datetime arithmetic and strftime('%Y-%m-%d')                  *)
(***************************************************************************)
\* datetime.weekday(): Monday is 0; ordinal 1 (0001-01-01) is a Monday
Weekday(ord) == (ord + 6) % 7

DaysBeforeMonth == <<0, 31, 59, 90, 120, 151, 181, 212, 243, 273, 304, 334>>
DaysInMonth == <<31, 28, 31, 30, 31, 30, 31, 31, 30, 31, 30, 31>>

\* year, month, day of an ordinal (the proleptic Gregorian calendar of datetime)
Ord2Ymd(ord) ==
    LET n0 == ord - 1
        n400 == n0 \div 146097
        r400 == n0 % 146097
        n100 == r400 \div 36524
        r100 == r400 % 36524
        n4 == r100 \div 1461
        r4 == r100 % 1461
        n1 == r4 \div 365
        n == r4 % 365
        year == n400 * 400 + 1 + n100 * 100 + n4 * 4 + n1
        leap == n1 = 3 /\ (n4 # 24 \/ n100 = 3)
        m0 == (n + 50) \div 32
        p0 == DaysBeforeMonth[m0] + (IF m0 > 2 /\ leap THEN 1 ELSE 0)
        month == IF p0 > n THEN m0 - 1 ELSE m0
        preceding == IF p0 > n
                     THEN p0 - (DaysInMonth[month] + (IF month = 2 /\ leap THEN 1 ELSE 0))
                     ELSE p0
    IN  IF n1 = 4 \/ n100 = 4 THEN <<year - 1, 12, 31>>
        ELSE <<year, month, n - preceding + 1>>

\* the decimal digit of v (0..9) as a character
DigitChar(v) == <<"0", "1", "2", "3", "4", "5", "6", "7", "8", "9">>[v + 1]

\* v as exactly `width` decimal digits, zero padded (%Y for years 1000..9999, %m, %d)
RECURSIVE Padded(_, _)
Padded(v, width) ==
    IF width = 0 THEN <<>> ELSE Append(Padded(v \div 10, width - 1), DigitChar(v % 10))

\* strftime('%Y-%m-%d')
StrFTime(ord) ==
    LET ymd == Ord2Ymd(ord)
    IN  Padded(ymd[1], 4) \o <<"-">> \o Padded(ymd[2], 2) \o <<"-">> \o Padded(ymd[3], 2)

(***************************************************************************)
(* parse_relative_date                                                     *)
(***************************************************************************)
\* what a Python call yields: a date string, None, or a raised exception
DateRet(chars) == [tag |-> "date", date |-> chars, exc |-> ""]
NoneRet == [tag |-> "None", date |-> <<>>, exc |-> ""]
Raised(e) == [tag |-> "raise", date |-> <<>>, exc |-> e]

\* (today - timedelta(days=days)).strftime('%Y-%m-%d'); timedelta refuses more
\* than 999999999 days and datetime refuses a date before 0001-01-01
MinusDays(today, days) ==
    IF days > 999999999 \/ today - days < 1
    THEN Raised("date value out of range")
    ELSE DateRet(StrFTime(today - days))

\* the days_of_week dict, in its insertion order (monday: 0 .. sunday: 6)
days_of_week ==
    <<S_monday, S_tuesday, S_wednesday, S_thursday, S_friday, S_saturday, S_sunday>>

\* a days_back that lacks the step back of a full week (stays on today)
DaysBack_SameDay(today, day_num) == (Weekday(today) - day_num) % 7

\* days_back for "last <weekday>": back to the weekday, a full week if today is that day
DaysBack(today, day_num) ==
    LET days_back == (Weekday(today) - day_num) % 7
    IN  IF days_back = 0 THEN 7 ELSE days_back

\* the tail \s+ago of the three "ago" patterns, from position p
AgoTail(s, p) ==
    LET q == AfterSpaces(s, p) IN q # 0 /\ HasAt(s, q, S_ago)

\* (\d+)\s+<unit>s?\s+ago matches starting exactly at i
AgoAt(s, i, unit) ==
    /\ IsDigit(s[i])
    /\ LET a == AfterSpaces(s, DigitRunEnd(s, i) + 1)
           b == a + Len(unit)
       IN  /\ a # 0
           /\ HasAt(s, a, unit)
           /\ \/ (HasAt(s, b, <<"s">>) /\ AgoTail(s, b + 1))
              \/ AgoTail(s, b)

\* re.search of (\d+)\s+<unit>s?\s+ago: the start of the leftmost match, 0 if none
AgoSearch(s, unit) ==
    LET starts == {i \in 1..Len(s) : AgoAt(s, i, unit)}
    IN  IF starts = {} THEN 0 ELSE Min(starts)

\* int(match.group(1)) of the match starting at i
AgoAmount(s, i) == IntOf(SubSeq(s, i, DigitRunEnd(s, i)))

\* a search for last\s*<word>, which needs no whitespace between the words
LastSearch_NoSpace(s, word) ==
    \E i \in 1..Len(s) :
        /\ HasAt(s, i, S_last)
        /\ \/ HasAt(s, i + Len(S_last), word)
           \/ LET a == AfterSpaces(s, i + Len(S_last)) IN a # 0 /\ HasAt(s, a, word)

\* re.search of last\s+<word> finds a match
LastSearch(s, word) ==
    \E i \in 1..Len(s) :
        /\ HasAt(s, i, S_last)
        /\ LET a == AfterSpaces(s, i + Len(S_last)) IN a # 0 /\ HasAt(s, a, word)

\* the number of days one "month" stands for
MonthDays(amount) == amount * 30

\* the number of days one "week" stands for (timedelta(weeks=amount))
WeekDays(amount) == amount * 7

\* the loop over time_patterns: the first pattern, in list order, that matches
TimePatterns(s, today) ==
    LET d == AgoSearch(s, S_day)
        w == AgoSearch(s, S_week)
        m == AgoSearch(s, S_month)
    IN  IF d # 0 THEN MinusDays(today, AgoAmount(s, d))
        ELSE IF w # 0 THEN MinusDays(today, WeekDays(AgoAmount(s, w)))
        ELSE IF m # 0 THEN MinusDays(today, MonthDays(AgoAmount(s, m)))
        ELSE IF Contains(S_yesterday, s) THEN MinusDays(today, 1)
        ELSE IF LastSearch(s, S_week) THEN MinusDays(today, WeekDays(1))
        ELSE IF LastSearch(s, S_month) THEN MinusDays(today, 30)
        ELSE NoneRet

\* the loop over days_of_week: the first weekday, in dict order, whose
\* "last <weekday>" is a substring; -1 if none is
LastWeekday(s) ==
    LET hits == {n \in 0..6 : Contains(S_last \o SP \o days_of_week[n + 1], s)}
    IN  IF hits = {} THEN -1 ELSE Min(hits)

\* a parser that tries the time patterns before the weekdays
parse_relative_date_AgoFirst(date_string) ==
    LET today == now
        s == Strip(Lower(date_string))
        day_num == LastWeekday(s)
    IN  IF TimePatterns(s, today) # NoneRet THEN TimePatterns(s, today)
        ELSE IF day_num # -1 THEN MinusDays(today, DaysBack(today, day_num))
        ELSE NoneRet

\* parse_relative_date(date_string); today is read from the wall clock
parse_relative_date(date_string) ==
    LET today == now
        s == Strip(Lower(date_string))
        day_num == LastWeekday(s)
    IN  IF day_num # -1
        THEN MinusDays(today, DaysBack(today, day_num))
        ELSE TimePatterns(s, today)

(***************************************************************************)
(* search_orders_by_natural_query                                          *)
(***************************************************************************)
\* an absent argument (Python None); "" is the empty string
NONE == "<None>"

\* Python truthiness of an optional string argument
Truthy(x) == x # NONE /\ x # ""

\* str.split(): the maximal runs of non-whitespace characters, in order
RECURSIVE Split(_)
Split(s) ==
    LET inked == {i \in 1..Len(s) : ~IsSpace(s[i])}
        lo == Min(inked)
        hi == WordEnd(s, lo)
    IN  IF inked = {} THEN <<>>
        ELSE <<SubSeq(s, lo, hi)>> \o Split(SubSeq(s, hi + 1, Len(s)))

product_keywords ==
    <<S_iphone, S_macbook, S_airpods, S_ipad, S_watch, S_tv, S_headphones,
      S_laptop, S_phone, S_tablet, S_console, S_playstation, S_xbox>>

\* a keyword loop that stops at the first keyword found
KeywordScore_FirstOnly(query_lower, product_name) ==
    IF \E k \in 1..Len(product_keywords) :
           /\ Contains(product_keywords[k], query_lower)
           /\ Contains(product_keywords[k], product_name)
    THEN 2 ELSE 0

\* +2 for each keyword that is in the query and in the product name
KeywordScore(query_lower, product_name) ==
    2 * Cardinality({k \in 1..Len(product_keywords) :
                        /\ Contains(product_keywords[k], query_lower)
                        /\ Contains(product_keywords[k], product_name)})

\* a date signal that lacks the comparison with the order's order_date
DateScore_AnyOrder(parsed_date, order) ==
    IF parsed_date.tag = "date" /\ parsed_date.date # <<>> THEN 3 ELSE 0

\* +3 if a date was parsed and it is the order's order_date
DateScore(parsed_date, order) ==
    IF parsed_date.tag = "date" /\ parsed_date.date # <<>> /\ order.order_date = parsed_date.date
    THEN 3 ELSE 0

\* +1 for each pair (query word longer than 3, product word) where one contains the other
WordScore(query_lower, product_name) ==
    LET query_words == Split(query_lower)
        product_words == Split(product_name)
    IN  Cardinality({ij \in (1..Len(query_words)) \X (1..Len(product_words)) :
                        /\ Len(query_words[ij[1]]) > 3
                        /\ \/ Contains(query_words[ij[1]], product_words[ij[2]])
                           \/ Contains(product_words[ij[2]], query_words[ij[1]])})

\* a scoring that returns at the first signal that fires
MatchScore_EarlyExit(query_lower, parsed_date, order) ==
    LET product_name == Lower(order.product_name)
    IN  IF KeywordScore(query_lower, product_name) > 0
        THEN KeywordScore(query_lower, product_name)
        ELSE IF DateScore(parsed_date, order) > 0 THEN DateScore(parsed_date, order)
        ELSE WordScore(query_lower, product_name)

\* match_score of one order
MatchScore(query_lower, parsed_date, order) ==
    LET product_name == Lower(order.product_name)
    IN  KeywordScore(query_lower, product_name)
        + DateScore(parsed_date, order)
        + WordScore(query_lower, product_name)

\* a descending sort made of an ascending sort and a reversal: equal scores end
\* up in the reverse of their given order
RECURSIVE SortByScore_TiesReversed(_)
SortByScore_TiesReversed(scored) ==
    IF scored = <<>> THEN <<>>
    ELSE LET best == CHOOSE i \in 1..Len(scored) :
                         /\ \A j \in 1..Len(scored) : scored[j].match_score <= scored[i].match_score
                         /\ \A j \in (i + 1)..Len(scored) :
                                scored[j].match_score < scored[i].match_score
         IN  <<scored[best]>>
             \o SortByScore_TiesReversed(SubSeq(scored, 1, best - 1)
                                         \o SubSeq(scored, best + 1, Len(scored)))

\* list.sort(key=match_score, reverse=True): descending, equal scores in their given order
RECURSIVE SortByScore(_)
SortByScore(scored) ==
    IF scored = <<>> THEN <<>>
    ELSE LET best == Min({i \in 1..Len(scored) :
                             \A j \in 1..Len(scored) : scored[j].match_score <= scored[i].match_score})
         IN  <<scored[best]>>
             \o SortByScore(SubSeq(scored, 1, best - 1) \o SubSeq(scored, best + 1, Len(scored)))

\* the elements of seq at the positions idx, in order
Pick(seq, idx) ==
    [k \in 1..Cardinality(idx) |->
        seq[CHOOSE i \in idx : Cardinality({j \in idx : j < i}) = k - 1]]

Reverse(seq) == [i \in 1..Len(seq) |-> seq[Len(seq) + 1 - i]]

\* the order in which the store hands out the items of one response
Respond(items, env) == IF env.rev THEN Reverse(items) ELSE items

\* get_order_tracking_table(): the table handle, or the exception it raises
get_order_tracking_table(fails) ==
    IF fails
    THEN [ok |-> FALSE, exc |-> "Failed to get order tracking table: ssm_error"]
    ELSE [ok |-> TRUE, exc |-> ""]

\* table.query(IndexName='customer-index', ...)['Items']
QueryCustomer(table, customer_id, env) ==
    Respond(Pick(table, {i \in 1..Len(table) : table[i].customer_id = customer_id}), env)

\* table.query(IndexName='tracking-index', ...)['Items']
QueryTracking(table, tracking_id, env) ==
    Respond(Pick(table, {i \in 1..Len(table) : table[i].tracking_id = tracking_id}), env)

\* table.scan()['Items']
Scan(table, env) == Respond(table, env)

\* table.get_item(Key={'order_id': order_id}): the items under the key (none or one)
GetItem(table, order_id) ==
    Pick(table, {i \in 1..Len(table) : table[i].order_id = order_id})

\* a search that scans the table when the customer query returns nothing
Candidates_FallbackScan(table, customer_id, env) ==
    IF Truthy(customer_id) /\ QueryCustomer(table, customer_id, env) # <<>>
    THEN QueryCustomer(table, customer_id, env)
    ELSE Scan(table, env)

\* the orders a search looks at: the customer's when customer_id is given, else all
Candidates(table, customer_id, env) ==
    IF Truthy(customer_id) THEN QueryCustomer(table, customer_id, env) ELSE Scan(table, env)

\* a ranking that keeps the five best matches only
Rank_Top5(orders, query_lower, parsed_date) ==
    LET scored == [i \in 1..Len(orders) |->
                      [order |-> orders[i],
                       match_score |-> MatchScore(query_lower, parsed_date, orders[i])]]
        ranked == SortByScore(Pick(scored, {i \in 1..Len(scored) : scored[i].match_score > 0}))
    IN  SubSeq(ranked, 1, IF Len(ranked) < 5 THEN Len(ranked) ELSE 5)

\* the scoring loop and the sort over the orders read
Rank(orders, query_lower, parsed_date) ==
    LET scored == [i \in 1..Len(orders) |->
                      [order |-> orders[i],
                       match_score |-> MatchScore(query_lower, parsed_date, orders[i])]]
    IN  SortByScore(Pick(scored, {i \in 1..Len(scored) : scored[i].match_score > 0}))

\* the body of search_orders_by_natural_query once the handle and the parsed date
\* are in hand: tag "ok" with the ranked list, or tag "raise" with the exception;
\* ops are the collaborator calls made, logged is the text printed
SearchWith(handle, query_lower, parsed_date, customer_id, table, env) ==
    IF ~handle.ok
    THEN [tag |-> "raise", list |-> <<>>, exc |-> handle.exc,
          ops |-> <<"get_order_tracking_table">>, logged |-> ""]
    ELSE IF parsed_date.tag = "raise"
    THEN [tag |-> "raise", list |-> <<>>, exc |-> parsed_date.exc,
          ops |-> <<"get_order_tracking_table", "parse_relative_date">>, logged |-> ""]
    ELSE IF env.fail = "op"
    THEN [tag |-> "ok", list |-> <<>>, exc |-> "",
          ops |-> <<"get_order_tracking_table", "parse_relative_date",
                    IF Truthy(customer_id) THEN "query_customer" ELSE "scan">>,
          logged |-> "store_error"]
    ELSE [tag |-> "ok",
          list |-> Rank(Candidates(table, customer_id, env), query_lower, parsed_date),
          exc |-> "",
          ops |-> <<"get_order_tracking_table", "parse_relative_date",
                    IF Truthy(customer_id) THEN "query_customer" ELSE "scan">>,
          logged |-> ""]

\* search_orders_by_natural_query(natural_query, customer_id)
search_orders_by_natural_query(natural_query, customer_id, table, env) ==
    SearchWith(get_order_tracking_table(env.fail = "handle2"), Lower(natural_query),
               parse_relative_date(Lower(natural_query)), customer_id, table, env)

(***************************************************************************)
(* track_order                                                             *)
(***************************************************************************)
\* a natural_query argument: absent (None) or a text
NoQuery == [given |-> FALSE, text |-> <<>>]
Query(text) == [given |-> TRUE, text |-> text]
TruthyQuery(nq) == nq.given /\ nq.text # <<>>

\* format_order_status(order): the text is produced, or the formatting raises
\* (an order_total that is no number cannot be formatted with :.2f)
format_order_status(order) ==
    IF order.defect = "total"
    THEN [ok |-> FALSE, exc |-> "format_error"]
    ELSE [ok |-> TRUE, exc |-> ""]

\* the list lines index order['status'] directly: a record without it raises KeyError
ListLines(orders) ==
    IF \E i \in 1..Len(orders) : orders[i].defect = "status"
    THEN [ok |-> FALSE, exc |-> "KeyError_status"]
    ELSE [ok |-> TRUE, exc |-> ""]

\* the first n elements (seq[:n])
Take(seq, n) == SubSeq(seq, 1, IF Len(seq) < n THEN Len(seq) ELSE n)

\* the returned text, by its message, the orders it shows, the count it states
\* (of the orders found, or of the lines shown) and the error text it embeds;
\* matching is the list the natural_query branch decided on
Result(kind, msg, orders, total, err, matching, ops) ==
    [kind |-> kind, msg |-> msg, orders |-> orders, total |-> total, err |-> err,
     matching |-> matching, ops |-> ops, raised |-> FALSE]

\* a track_order without the outermost handler: the exception leaves the call
OuterExcept_Propagate(exc, ops) ==
    [kind |-> "raise", msg |-> "", orders |-> <<>>, total |-> 0, err |-> exc,
     matching |-> <<>>, ops |-> ops, raised |-> TRUE]

\* except Exception as e: return "Error tracking order: {e}" (the outermost handler)
OuterExcept(exc, ops) ==
    Result("NotFound", "error_tracking_order", <<>>, 0, exc, <<>>, ops)

\* the ISO date strings compare as Python compares str: by character, shorter first
CharCode(c) ==
    IF c = "-" THEN 45 ELSE 48 + (CHOOSE v \in 0..9 : DigitChar(v) = c)

RECURSIVE StrLess(_, _)
StrLess(a, b) ==
    IF b = <<>> THEN FALSE
    ELSE IF a = <<>> THEN TRUE
    ELSE IF a[1] # b[1] THEN CharCode(a[1]) < CharCode(b[1])
    ELSE StrLess(Tail(a), Tail(b))

\* orders.sort(key=order_date, reverse=True): latest first, equal dates in their given order
RECURSIVE SortByDate(_)
SortByDate(orders) ==
    IF orders = <<>> THEN <<>>
    ELSE LET best == Min({i \in 1..Len(orders) :
                             \A j \in 1..Len(orders) :
                                 ~StrLess(orders[i].order_date, orders[j].order_date)})
         IN  <<orders[best]>>
             \o SortByDate(SubSeq(orders, 1, best - 1) \o SubSeq(orders, best + 1, Len(orders)))

\* the order_id branch (lines 163-172)
ByOrderId(order_id, table, env, ops0) ==
    LET ops == ops0 \o <<"get_item">>
        items == GetItem(table, order_id)
        text == format_order_status(items[1])
    IN  IF env.fail = "op"
        THEN Result("NotFound", "error_order", <<>>, 0, "store_error", <<>>, ops)
        ELSE IF items = <<>>
        THEN Result("NotFound", "order_not_found", <<>>, 0, "", <<>>, ops)
        ELSE IF ~text.ok
        THEN Result("NotFound", "error_order", <<>>, 0, text.exc, <<>>, ops)
        ELSE Result("Found", "order_status", <<items[1]>>, 1, "", <<>>, ops)

\* a tracking_id branch that takes the last item of the response
ByTrackingId_Last(tracking_id, table, env, ops0) ==
    LET ops == ops0 \o <<"query_tracking">>
        items == QueryTracking(table, tracking_id, env)
    IN  IF env.fail = "op"
        THEN Result("NotFound", "error_tracking", <<>>, 0, "store_error", <<>>, ops)
        ELSE IF items = <<>>
        THEN Result("NotFound", "tracking_not_found", <<>>, 0, "", <<>>, ops)
        ELSE Result("Found", "order_status", <<items[Len(items)]>>, 1, "", <<>>, ops)

\* the tracking_id branch (lines 175-189)
ByTrackingId(tracking_id, table, env, ops0) ==
    LET ops == ops0 \o <<"query_tracking">>
        items == QueryTracking(table, tracking_id, env)
        text == format_order_status(items[1])
    IN  IF env.fail = "op"
        THEN Result("NotFound", "error_tracking", <<>>, 0, "store_error", <<>>, ops)
        ELSE IF items = <<>>
        THEN Result("NotFound", "tracking_not_found", <<>>, 0, "", <<>>, ops)
        ELSE IF ~text.ok
        THEN Result("NotFound", "error_tracking", <<>>, 0, text.exc, <<>>, ops)
        ELSE Result("Found", "order_status", <<items[1]>>, 1, "", <<>>, ops)

\* the orders of a ranked list (matching_orders without the scores)
OrdersOf(list) == [i \in 1..Len(list) |-> list[i].order]

\* the natural_query branch after the search (lines 195-211)
AfterSearch(found, matching_orders, ops) ==
    IF found.tag = "raise" THEN OuterExcept(found.exc, ops)
    ELSE IF matching_orders = <<>>
    THEN Result("NotFound", "no_match", <<>>, 0, "", matching_orders, ops)
    ELSE IF Len(matching_orders) = 1
    THEN IF ~format_order_status(matching_orders[1]).ok
         THEN OuterExcept(format_order_status(matching_orders[1]).exc, ops)
         ELSE Result("Found", "order_status", <<matching_orders[1]>>, 1, "",
                     matching_orders, ops)
    ELSE IF ~ListLines(Take(matching_orders, 5)).ok
    THEN OuterExcept(ListLines(Take(matching_orders, 5)).exc, ops)
    ELSE Result("Ambiguous", "matches", Take(matching_orders, 5),
                Len(matching_orders), "", matching_orders, ops)

\* the search of the natural_query branch, with what follows it
Searched(found, ops0) ==
    AfterSearch(found, OrdersOf(found.list),
                ops0 \o <<"search_orders_by_natural_query">> \o found.ops)

\* the natural_query branch (lines 192-211)
ByNaturalQuery(natural_query, customer_id, table, env, ops0) ==
    Searched(search_orders_by_natural_query(natural_query.text, customer_id, table, env), ops0)

\* a customer_id branch that lists the orders as the index returned them
ByCustomerId_Unsorted(customer_id, table, env, ops0) ==
    LET ops == ops0 \o <<"query_customer">>
        orders == QueryCustomer(table, customer_id, env)
    IN  IF env.fail = "op"
        THEN Result("NotFound", "error_customer", <<>>, 0, "store_error", <<>>, ops)
        ELSE IF orders = <<>>
        THEN Result("NotFound", "no_customer_orders", <<>>, 0, "", <<>>, ops)
        ELSE Result("Recent", "recent_orders", Take(orders, 5), Len(Take(orders, 5)), "", <<>>, ops)

\* the customer_id branch (lines 214-237)
ByCustomerId(customer_id, table, env, ops0) ==
    LET ops == ops0 \o <<"query_customer">>
        orders == SortByDate(QueryCustomer(table, customer_id, env))
        lines == ListLines(Take(orders, 5))
    IN  IF env.fail = "op"
        THEN Result("NotFound", "error_customer", <<>>, 0, "store_error", <<>>, ops)
        ELSE IF orders = <<>>
        THEN Result("NotFound", "no_customer_orders", <<>>, 0, "", <<>>, ops)
        ELSE IF ~lines.ok
        THEN Result("NotFound", "error_customer", <<>>, 0, lines.exc, <<>>, ops)
        ELSE Result("Recent", "recent_orders", Take(orders, 5), Len(Take(orders, 5)), "", <<>>, ops)

\* an if/elif chain that tries the natural_query first
Branch_QueryFirst(order_id, tracking_id, customer_id, natural_query) ==
    IF TruthyQuery(natural_query) THEN "natural_query"
    ELSE IF Truthy(order_id) THEN "order_id"
    ELSE IF Truthy(tracking_id) THEN "tracking_id"
    ELSE IF Truthy(customer_id) THEN "customer_id"
    ELSE "none"

\* the branch taken: the if/elif chain of lines 163, 175, 192, 214, 239
Branch(order_id, tracking_id, customer_id, natural_query) ==
    IF Truthy(order_id) THEN "order_id"
    ELSE IF Truthy(tracking_id) THEN "tracking_id"
    ELSE IF TruthyQuery(natural_query) THEN "natural_query"
    ELSE IF Truthy(customer_id) THEN "customer_id"
    ELSE "none"

\* track_order(order_id, tracking_id, customer_id, natural_query)
track_order(order_id, tracking_id, customer_id, natural_query, table, env) ==
    LET handle == get_order_tracking_table(env.fail = "handle1")
        ops0 == <<"get_order_tracking_table">>
        branch == Branch(order_id, tracking_id, customer_id, natural_query)
    IN  IF ~handle.ok THEN OuterExcept(handle.exc, ops0)
        ELSE IF branch = "order_id" THEN ByOrderId(order_id, table, env, ops0)
        ELSE IF branch = "tracking_id" THEN ByTrackingId(tracking_id, table, env, ops0)
        ELSE IF branch = "natural_query"
        THEN ByNaturalQuery(natural_query, customer_id, table, env, ops0)
        ELSE IF branch = "customer_id" THEN ByCustomerId(customer_id, table, env, ops0)
        ELSE Result("NotFound", "insufficient", <<>>, 0, "", <<>>, ops0)

(***************************************************************************)
(* Inputs of the date parser                                               *)
(***************************************************************************)
\* the first calendar day the wall clock may show (739047 is Monday 2024-06-10)
FirstDay == 739047
\* the number of consecutive days the wall clock may advance through
NumDays == 7

Days == FirstDay..(FirstDay + NumDays)

\* the inverse of LowerChar on the letters
UpperChar(c) ==
    LET ups == {u \in {"A", "B", "C", "D", "E", "F", "G", "H", "I", "J", "K", "L", "M",
                       "N", "O", "P", "Q", "R", "S", "T", "U", "V", "W", "X", "Y", "Z"} :
                   LowerChar(u) = c}
    IN  IF ups = {} THEN c ELSE CHOOSE u \in ups : TRUE

Upper(s) == [i \in 1..Len(s) |-> UpperChar(s[i])]

\* the numbers written in a text, each with its value
Numbers ==
    { [txt |-> <<"0">>, val |-> 0], [txt |-> <<"1">>, val |-> 1],
      [txt |-> <<"3">>, val |-> 3], [txt |-> <<"1", "2">>, val |-> 12],
      [txt |-> <<"0", "0", "7">>, val |-> 7],
      [txt |-> <<"2", "4", "7", "0", "0">>, val |-> 24700],
      [txt |-> <<"8", "0", "0", "0", "0", "0">>, val |-> 800000] }

Units == { [kind |-> "days", word |-> S_day], [kind |-> "weeks", word |-> S_week],
           [kind |-> "months", word |-> S_month] }

\* one date phrase: its text (body) and what it says (kind, weekday w, number n)
WeekdayPhrases ==
    { [kind |-> "weekday", w |-> d, n |-> 0, body |-> S_last \o SP \o days_of_week[d + 1]] :
        d \in 0..6 }

AgoPhrases ==
    { [kind |-> u.kind, w |-> -1, n |-> num.val,
       body |-> num.txt \o sep \o u.word \o plural \o SP \o S_ago] :
        u \in Units, num \in Numbers, plural \in {<<>>, <<"s">>}, sep \in {SP, SP \o TAB} }

NamedPhrases ==
    { [kind |-> "yesterday", w |-> -1, n |-> 0, body |-> S_yesterday],
      [kind |-> "last_week", w |-> -1, n |-> 0, body |-> S_last \o SP \o S_week],
      [kind |-> "last_week", w |-> -1, n |-> 0, body |-> S_last \o TAB \o SP \o S_week],
      [kind |-> "last_month", w |-> -1, n |-> 0, body |-> S_last \o SP \o S_month] }

\* texts that are none of the recognized forms
OtherPhrases ==
    { [kind |-> "none", w |-> -1, n |-> 0, body |-> b] :
        b \in { <<>>,
                <<"s", "o", "m", "e", "t", "i", "m", "e">>,
                S_last, S_friday, S_week \o SP \o S_ago,
                S_last \o S_friday,
                S_last \o SP \o SP \o S_friday,
                S_last \o S_week,
                <<"t", "w", "o">> \o SP \o S_week \o <<"s">> \o SP \o S_ago,
                <<"3">> \o S_day \o <<"s">> \o SP \o S_ago,
                <<"3">> \o SP \o S_day \o <<"s">> \o S_ago,
                <<"3">> \o SP \o S_day \o <<"s">>,
                <<"3">> \o SP \o <<"y", "e", "a", "r", "s">> \o SP \o S_ago,
                S_iphone } }

Phrases == WeekdayPhrases \cup AgoPhrases \cup NamedPhrases \cup OtherPhrases

\* what surrounds the phrase: words before and after, and the letter case
Decors ==
    { [pre |-> <<>>, post |-> <<>>, caps |-> FALSE],
      [pre |-> <<"m", "y">> \o SP \o S_iphone \o SP \o <<"f", "r", "o", "m">> \o SP,
       post |-> <<>>, caps |-> FALSE],
      [pre |-> SP \o SP, post |-> SP \o TAB, caps |-> TRUE],
      [pre |-> <<"b">>, post |-> <<"e", "n", "d">>, caps |-> FALSE] }

DateInputs == { [ph |-> ph, dec |-> dec] : ph \in Phrases, dec \in Decors }

\* the text of an input
TextOf(inp) ==
    LET t == inp.dec.pre \o inp.ph.body \o inp.dec.post
    IN  IF inp.dec.caps THEN Upper(t) ELSE t

(***************************************************************************)
(* The order store and the inputs of the resolver                          *)
(***************************************************************************)
N_iphone15pro == <<"i", "P", "h", "o", "n", "e", " ", "1", "5", " ", "P", "r", "o">>
N_macbookair == <<"M", "a", "c", "B", "o", "o", "k", " ", "A", "i", "r">>
N_iphone15case == <<"i", "P", "h", "o", "n", "e", " ", "1", "5", " ", "C", "a", "s", "e">>
N_airpodspro == <<"A", "i", "r", "P", "o", "d", "s", " ", "P", "r", "o">>
N_iphonecharger == <<"i", "P", "h", "o", "n", "e", " ", "C", "h", "a", "r", "g", "e", "r">>
N_iphone14 == <<"i", "P", "h", "o", "n", "e", " ", "1", "4">>
N_iphonese == <<"i", "P", "h", "o", "n", "e", " ", "S", "E">>
N_iphone13 == <<"i", "P", "h", "o", "n", "e", " ", "1", "3">>
Q_iphone == <<"i", "p", "h", "o", "n", "e">>
Q_iphone_last_friday == <<"i", "P", "h", "o", "n", "e", " ", "l", "a", "s", "t", " ", "F", "r", "i", "d", "a", "y">>
Q_macbook_yesterday == <<"m", "a", "c", "b", "o", "o", "k", " ", "y", "e", "s", "t", "e", "r", "d", "a", "y">>
Q_sometime == <<"s", "o", "m", "e", "t", "i", "m", "e">>
Q_airpods_overflow == <<"a", "i", "r", "p", "o", "d", "s", " ", "8", "0", "0", "0", "0", "0", " ", "d", "a", "y", "s", " ", "a", "g", "o">>
Q_charger == <<"c", "h", "a", "r", "g", "e", "r">>
Q_3_days_ago == <<"3", " ", "d", "a", "y", "s", " ", "a", "g", "o">>

\* an order record; tracking_id "" is an order without one, defect "" a record
\* that conforms to the data model
Order(order_id, tracking_id, customer_id, product_name, day, defect) ==
    [order_id |-> order_id, tracking_id |-> tracking_id, customer_id |-> customer_id,
     product_name |-> product_name, order_date |-> StrFTime(day), defect |-> defect]

\* eight orders, six of them iPhones, two sharing a tracking_id
BigStore ==
    << Order("O1", "T1", "C1", N_iphone15pro, FirstDay - 3, ""),
       Order("O2", "T2", "C1", N_macbookair, FirstDay - 1, ""),
       Order("O3", "T1", "C2", N_iphone15case, FirstDay - 3, ""),
       Order("O4", "", "C1", N_airpodspro, FirstDay - 7, ""),
       Order("O5", "T5", "C2", N_iphonecharger, FirstDay - 30, ""),
       Order("O6", "T6", "C1", N_iphone14, FirstDay - 3, ""),
       Order("O7", "T7", "C1", N_iphonese, FirstDay + 2, ""),
       Order("O8", "T8", "C1", N_iphone13, FirstDay - 10, "") >>

SmallStore ==
    << Order("O2", "T1", "C2", N_macbookair, FirstDay - 1, ""),
       Order("O1", "T1", "C1", N_iphone14, FirstDay - 3, "") >>

\* the stores whose records conform to the data model
Stores == {BigStore, SmallStore, <<>>}

\* a store with records that do not: an order_total that is no number, a missing status
DefectStore ==
    << Order("O1", "T1", "C1", N_iphone14, FirstDay - 3, "total"),
       Order("O2", "T2", "C2", N_iphone13, FirstDay - 3, "status"),
       Order("O3", "T3", "C1", N_macbookair, FirstDay - 1, "") >>

RawStores == {DefectStore, SmallStore}

OrderIds == {NONE, "", "O1", "O9"}
TrackingIds == {NONE, "T1", "T9"}
CustomerIds == {NONE, "C1", "C9"}
Queries ==
    {NoQuery, Query(<<>>)}
    \cup {Query(q) : q \in {Q_iphone, Q_iphone_last_friday, Q_macbook_yesterday, Q_sometime,
                            Q_airpods_overflow, Q_charger, Q_3_days_ago}}

\* what the collaborators do during one call: which collaborator call fails, if
\* any (obtaining the table handle in track_order, obtaining it in the search, the
\* store read of the branch; a call ends at its first failure, or logs it and
\* returns), and the order in which the store hands out items
Envs == [fail : {"none", "handle1", "handle2", "op"}, rev : BOOLEAN]

(***************************************************************************)
(* The inputs of the free-text search                                      *)
(***************************************************************************)
N_phonecase == <<"P", "h", "o", "n", "e", " ", "C", "a", "s", "e">>
N_iphonechargercable ==
    <<"i", "P", "h", "o", "n", "e", " ", "C", "h", "a", "r", "g", "e", "r", " ",
      "C", "a", "b", "l", "e">>
N_phonecaseforiphone ==
    <<"P", "h", "o", "n", "e", " ", "C", "a", "s", "e", " ", "f", "o", "r", " ",
      "i", "P", "h", "o", "n", "e">>
N_desklamp == <<"D", "e", "s", "k", " ", "L", "a", "m", "p">>
N_usbhub == <<"U", "S", "B", " ", "H", "u", "b">>
Q_iphone_charger_cable_last_friday ==
    <<"i", "p", "h", "o", "n", "e", " ", "c", "h", "a", "r", "g", "e", "r", " ",
      "c", "a", "b", "l", "e", " ", "l", "a", "s", "t", " ", "f", "r", "i", "d", "a", "y">>

\* orders around Friday 2024-06-07 (ordinal 739044) and Friday 2024-06-14: two
\* orders of the same product on different days, an order that no text matches
SearchStore ==
    << Order("S1", "U1", "C1", N_phonecase, 739044, ""),
       Order("S2", "U2", "C1", N_iphonechargercable, 739043, ""),
       Order("S3", "U3", "C1", N_iphone14, 739044, ""),
       Order("S4", "U4", "C2", N_iphone14, 739042, ""),
       Order("S5", "U5", "C1", N_desklamp, 739044, ""),
       Order("S6", "U6", "C2", N_usbhub, 739038, ""),
       Order("S7", "U7", "C1", N_iphone14, 739051, ""),
       Order("S8", "U8", "C2", N_phonecaseforiphone, 739040, "") >>

SearchStores == {SearchStore, BigStore, <<>>}

SearchQueries ==
    {<<>>, Q_iphone, Q_iphone_last_friday, Q_iphone_charger_cable_last_friday,
     Q_macbook_yesterday, Q_sometime, Q_airpods_overflow, Q_3_days_ago}

\* the customer_id of a search: absent, empty, a customer with orders, one without
SearchCustomerIds == CustomerIds \cup {""}

\* the collaborators of one search: the handle or the store read may fail
SearchEnvs == [fail : {"none", "handle2", "op"}, rev : BOOLEAN]

(***************************************************************************)
(* State                                                                   *)
(***************************************************************************)
NoParse == [done |-> FALSE]
NoCall == [done |-> FALSE]
NoSearch == [done |-> FALSE]
NoCli == [done |-> FALSE]

\* the two scripts, each with the SSM parameter it keeps its provider name in
Scripts == {"cognito", "google"}

\* no credential provider, no parameter, no command running
NoCloud ==
    /\ providers = {}
    /\ ssmParam = [s \in Scripts |-> NONE]
    /\ cliRun = NoCli
    /\ observed = [changers |-> {}, ssmFailed |-> FALSE]

Init ==
    /\ now \in Days
    /\ store \in Stores
    /\ parsed = NoParse
    /\ call = NoCall
    /\ searchCall = NoSearch
    /\ prev = NoCall
    /\ thr = <<>>
    /\ dicts = <<>>
    /\ NoCloud

InitRaw ==
    /\ now \in Days
    /\ store \in RawStores
    /\ parsed = NoParse
    /\ call = NoCall
    /\ searchCall = NoSearch
    /\ prev = NoCall
    /\ thr = <<>>
    /\ dicts = <<>>
    /\ NoCloud

InitDate ==
    /\ now \in Days
    /\ store = <<>>
    /\ parsed = NoParse
    /\ call = NoCall
    /\ searchCall = NoSearch
    /\ prev = NoCall
    /\ thr = <<>>
    /\ dicts = <<>>
    /\ NoCloud

\* the wall clock passes midnight
Tick ==
    /\ now < FirstDay + NumDays
    /\ now' = now + 1
    /\ UNCHANGED <<store, parsed, call>>
    /\ UNCHANGED others

\* one evaluation of parse_relative_date(text), by a caller that holds no result yet
ParseCall ==
    /\ parsed = NoParse
    /\ \E inp \in DateInputs :
           parsed' = [done |-> TRUE, inp |-> inp, today |-> now,
                      ret |-> parse_relative_date(TextOf(inp))]
    /\ UNCHANGED <<now, store, call>>
    /\ UNCHANGED others

\* the caller is done with the result
ParseReturn ==
    /\ parsed # NoParse
    /\ parsed' = NoParse
    /\ UNCHANGED <<now, store, call>>
    /\ UNCHANGED others

\* one call of track_order, by a caller that holds no result yet
TrackOrderCall ==
    /\ call = NoCall
    /\ \E order_id \in OrderIds, tracking_id \in TrackingIds, customer_id \in CustomerIds,
          natural_query \in Queries, env \in Envs :
           call' = [done |-> TRUE,
                    q |-> [order_id |-> order_id, tracking_id |-> tracking_id,
                           customer_id |-> customer_id, natural_query |-> natural_query],
                    env |-> env, today |-> now,
                    res |-> track_order(order_id, tracking_id, customer_id, natural_query,
                                        store, env)]
    /\ UNCHANGED <<now, store, parsed>>
    /\ UNCHANGED others

\* the caller is done with the result
TrackOrderReturn ==
    /\ call # NoCall
    /\ call' = NoCall
    /\ UNCHANGED <<now, store, parsed>>
    /\ UNCHANGED others

InitSearch ==
    /\ now \in Days
    /\ store \in SearchStores
    /\ parsed = NoParse
    /\ call = NoCall
    /\ searchCall = NoSearch
    /\ prev = NoCall
    /\ thr = <<>>
    /\ dicts = <<>>
    /\ NoCloud

\* one call of search_orders_by_natural_query, by a caller that holds no result yet
SearchCall ==
    /\ searchCall = NoSearch
    /\ \E natural_query \in SearchQueries, customer_id \in SearchCustomerIds,
          env \in SearchEnvs :
           searchCall' = [done |-> TRUE, natural_query |-> natural_query,
                     customer_id |-> customer_id, env |-> env, today |-> now,
                     ret |-> search_orders_by_natural_query(natural_query, customer_id,
                                                            store, env)]
    /\ UNCHANGED <<now, store, parsed, call, prev, thr, dicts, cloud>>

\* the caller is done with the list
SearchReturn ==
    /\ searchCall # NoSearch
    /\ searchCall' = NoSearch
    /\ UNCHANGED <<now, store, parsed, call, prev, thr, dicts, cloud>>

\* a call reads the wall clock once (in parse_relative_date), so the resolver is
\* checked on every day of Days with the clock standing still during the run
Next == TrackOrderCall \/ TrackOrderReturn

\* the resolver over stores that conform to the data model
Spec == Init /\ [][Next]_vars

\* the resolver over stores that hold defective records too
SpecRaw == InitRaw /\ [][Next]_vars

NextDate == ParseCall \/ ParseReturn \/ Tick

\* the date parser alone
SpecDate == InitDate /\ [][NextDate]_vars

NextSearch == SearchCall \/ SearchReturn

\* the phrases that are put side by side in one text
PairPhrases ==
    {ph \in WeekdayPhrases : ph.w \in {1, 4}}
    \cup {ph \in AgoPhrases : ph.n \in {3, 12} /\ ph.body[Len(ph.body) - 4] = "s"
                                /\ ~Contains(TAB, ph.body)}
    \cup {ph \in NamedPhrases : ~Contains(TAB, ph.body)}

\* what stands between the two phrases
Joiners == {SP, SP \o <<"a", "n", "d">> \o SP, <<",">> \o SP \o <<"o", "r">> \o SP}

\* the text of two phrases side by side
PairText(first, joiner, second) == first.body \o joiner \o second.body

\* one evaluation of parse_relative_date on a text that holds two phrases
ParsePairCall ==
    /\ parsed = NoParse
    /\ \E first \in PairPhrases, second \in PairPhrases, joiner \in Joiners :
           parsed' = [done |-> TRUE, first |-> first, second |-> second, joiner |-> joiner,
                      today |-> now,
                      ret |-> parse_relative_date(PairText(first, joiner, second))]
    /\ UNCHANGED <<now, store, call>>
    /\ UNCHANGED others

NextPair == ParsePairCall \/ ParseReturn \/ Tick

\* the date parser on texts that hold two phrases
SpecPair == InitDate /\ [][NextPair]_vars

\* the inputs of a caller that calls track_order again and again
SeqOrderIds == {NONE, "O1"}
SeqCustomerIds == {NONE, "C1"}
SeqQueries == {NoQuery, Query(Q_iphone), Query(Q_iphone_last_friday)}
SeqEnvs == {[fail |-> "none", rev |-> FALSE], [fail |-> "op", rev |-> FALSE]}

\* one call of track_order in a sequence of calls
SeqCall ==
    /\ call = NoCall
    /\ \E order_id \in SeqOrderIds, customer_id \in SeqCustomerIds,
          natural_query \in SeqQueries, env \in SeqEnvs :
           call' = [done |-> TRUE,
                    q |-> [order_id |-> order_id, tracking_id |-> NONE,
                           customer_id |-> customer_id, natural_query |-> natural_query],
                    env |-> env, today |-> now,
                    res |-> track_order(order_id, NONE, customer_id, natural_query,
                                        store, env)]
    /\ UNCHANGED <<now, store, parsed, searchCall, prev, thr, dicts, cloud>>

\* the call returns; the caller keeps its result for later, or the result of an
\* earlier call it kept before
SeqReturn ==
    /\ call # NoCall
    /\ call' = NoCall
    /\ \E keep \in BOOLEAN : prev' = IF keep THEN call ELSE prev
    /\ UNCHANGED <<now, store, parsed, searchCall, thr, dicts, cloud>>

NextSeq == SeqCall \/ SeqReturn \/ Tick

\* calls of track_order one after the other, while the days pass
SpecSeq == Init /\ [][NextSeq]_vars

\* the free-text search alone
SpecSearch == InitSearch /\ [][NextSearch]_vars

(***************************************************************************)
(* Concurrent calls of track_order, statement by statement                 *)
(***************************************************************************)
\* the threads (requests) that call track_order at the same time
Threads == {1, 2}

\* two iPhones and a MacBook; the later record is the one ordered on Friday 2024-06-07
ConcStore ==
    << Order("O1", "T1", "C1", N_iphone13, 739040, ""),
       Order("O2", "T2", "C1", N_iphone14, 739044, ""),
       Order("O3", "T3", "C2", N_macbookair, 739046, "") >>

\* the arguments of a concurrent call and what its collaborators do
ConcCall(order_id, customer_id, natural_query, fail, rev) ==
    [q |-> [order_id |-> order_id, tracking_id |-> NONE, customer_id |-> customer_id,
            natural_query |-> natural_query],
     env |-> [fail |-> fail, rev |-> rev]]

ConcCalls ==
    { ConcCall(NONE, NONE, Query(Q_iphone_last_friday), "none", FALSE),
      ConcCall(NONE, NONE, Query(Q_iphone), "none", FALSE),
      ConcCall(NONE, "C1", Query(Q_iphone), "none", TRUE),
      ConcCall(NONE, "C1", Query(Q_iphone_last_friday), "op", FALSE),
      ConcCall(NONE, NONE, Query(Q_iphone), "handle2", FALSE),
      ConcCall(NONE, NONE, Query(Q_airpods_overflow), "none", FALSE),
      ConcCall("O1", NONE, Query(Q_iphone), "none", FALSE),
      ConcCall(NONE, "C1", NoQuery, "none", FALSE),
      ConcCall(NONE, NONE, NoQuery, "handle1", FALSE),
      ConcCall(NONE, NONE, NoQuery, "none", FALSE) }

\* item dicts that every response shares with the responses of the other calls
ItemOf_Shared(t, order_id) == <<1, order_id>>

\* the item dict a response holds for an order: every response of the store has
\* item dicts of its own, so the dict belongs to the call that made the read
ItemOf(t, order_id) == <<t, order_id>>

\* the locals of a thread that is not in a call
IdleThread ==
    [pc |-> "idle",
     q |-> [order_id |-> NONE, tracking_id |-> NONE, customer_id |-> NONE,
            natural_query |-> NoQuery],
     env |-> [fail |-> "none", rev |-> FALSE],
     parsed_date |-> NoneRet, orders |-> <<>>, i |-> 0, matching_orders |-> <<>>,
     ops |-> <<>>, res |-> [raised |-> FALSE], overlapped |-> FALSE]

\* thread t moves on to the locals rec; a call of another thread that is under
\* way has then run side by side with a statement of t
Put(t, rec) ==
    [u \in Threads |->
        IF u = t THEN rec
        ELSE IF thr[u].pc \notin {"idle", "done"} THEN [thr[u] EXCEPT !.overlapped = TRUE]
        ELSE thr[u]]

\* the locals of a call that returns res
Done(rec, res) == [rec EXCEPT !.pc = "done", !.res = res]

\* the item dicts without the match_score of thread t's response
Fresh(t) ==
    [id \in DOMAIN dicts |->
        IF \E k \in 1..Len(store) : id = ItemOf(t, store[k].order_id) THEN -1 ELSE dicts[id]]

\* what search_orders_by_natural_query hands back when it returns a list
Returned == [tag |-> "ok", list |-> <<>>, exc |-> "", ops |-> <<>>, logged |-> ""]

InitConc ==
    /\ now \in Days
    /\ store = ConcStore
    /\ parsed = NoParse
    /\ call = NoCall
    /\ searchCall = NoSearch
    /\ prev = NoCall
    /\ thr = [t \in Threads |-> IdleThread]
    /\ dicts = [id \in Threads \X {ConcStore[k].order_id : k \in 1..Len(ConcStore)} |-> -1]
    /\ NoCloud

\* thread t enters track_order with its arguments
ThreadStart(t) ==
    /\ thr[t].pc = "idle"
    /\ \E c \in ConcCalls :
           thr' = Put(t, [IdleThread EXCEPT !.pc = "handle", !.q = c.q, !.env = c.env])
    /\ UNCHANGED <<now, store, parsed, call, searchCall, prev, dicts, cloud>>

\* line 160 and the if/elif chain: the handle, then the branch
GetHandle(t) ==
    /\ thr[t].pc = "handle"
    /\ thr' = Put(t,
          IF ~get_order_tracking_table(thr[t].env.fail = "handle1").ok
          THEN Done(thr[t], OuterExcept(get_order_tracking_table(TRUE).exc,
                                        <<"get_order_tracking_table">>))
          ELSE IF Branch(thr[t].q.order_id, thr[t].q.tracking_id, thr[t].q.customer_id,
                         thr[t].q.natural_query) = "none"
          THEN Done(thr[t], Result("NotFound", "insufficient", <<>>, 0, "", <<>>,
                                   <<"get_order_tracking_table">>))
          ELSE [thr[t] EXCEPT
                   !.pc = IF Branch(thr[t].q.order_id, thr[t].q.tracking_id,
                                    thr[t].q.customer_id, thr[t].q.natural_query)
                             = "natural_query"
                          THEN "search" ELSE "lookup",
                   !.ops = <<"get_order_tracking_table">>])
    /\ UNCHANGED <<now, store, parsed, call, searchCall, prev, dicts, cloud>>

\* the order_id, tracking_id and customer_id branches: one read and its result
Lookup(t) ==
    /\ thr[t].pc = "lookup"
    /\ thr' = Put(t, Done(thr[t],
          IF Truthy(thr[t].q.order_id)
          THEN ByOrderId(thr[t].q.order_id, store, thr[t].env, thr[t].ops)
          ELSE IF Truthy(thr[t].q.tracking_id)
          THEN ByTrackingId(thr[t].q.tracking_id, store, thr[t].env, thr[t].ops)
          ELSE ByCustomerId(thr[t].q.customer_id, store, thr[t].env, thr[t].ops)))
    /\ UNCHANGED <<now, store, parsed, call, searchCall, prev, dicts, cloud>>

\* line 193 into line 75: the search obtains the handle again
SearchHandle(t) ==
    /\ thr[t].pc = "search"
    /\ thr' = Put(t,
          IF ~get_order_tracking_table(thr[t].env.fail = "handle2").ok
          THEN Done(thr[t], OuterExcept(get_order_tracking_table(TRUE).exc,
                       thr[t].ops \o <<"search_orders_by_natural_query",
                                       "get_order_tracking_table">>))
          ELSE [thr[t] EXCEPT
                   !.pc = "parse",
                   !.ops = thr[t].ops \o <<"search_orders_by_natural_query",
                                           "get_order_tracking_table">>])
    /\ UNCHANGED <<now, store, parsed, call, searchCall, prev, dicts, cloud>>

\* lines 78-81: the date of the query, read against the wall clock
ParseDate(t) ==
    /\ thr[t].pc = "parse"
    /\ thr' = Put(t,
          IF parse_relative_date(Lower(thr[t].q.natural_query.text)).tag = "raise"
          THEN Done(thr[t], OuterExcept(
                       parse_relative_date(Lower(thr[t].q.natural_query.text)).exc,
                       thr[t].ops \o <<"parse_relative_date">>))
          ELSE [thr[t] EXCEPT
                   !.pc = "read",
                   !.parsed_date = parse_relative_date(Lower(thr[t].q.natural_query.text)),
                   !.ops = thr[t].ops \o <<"parse_relative_date">>])
    /\ UNCHANGED <<now, store, parsed, call, searchCall, prev, dicts, cloud>>

\* lines 91-110: the customer query or the scan; a failing read ends the search
\* with an empty list, a response brings item dicts without a match_score
ReadCandidates(t) ==
    /\ thr[t].pc = "read"
    /\ thr' = Put(t,
          IF thr[t].env.fail = "op"
          THEN Done(thr[t], AfterSearch(Returned, <<>>,
                       thr[t].ops \o <<IF Truthy(thr[t].q.customer_id)
                                        THEN "query_customer" ELSE "scan">>))
          ELSE [thr[t] EXCEPT
                   !.pc = "score",
                   !.orders = Candidates(store, thr[t].q.customer_id, thr[t].env),
                   !.i = 1,
                   !.ops = thr[t].ops \o <<IF Truthy(thr[t].q.customer_id)
                                            THEN "query_customer" ELSE "scan">>])
    /\ dicts' = Fresh(t)
    /\ UNCHANGED <<now, store, parsed, call, searchCall, prev, cloud>>

\* lines 113-137, one turn of the loop: the score of the next order, written to
\* its item dict, and the dict appended to matching_orders, when above 0
ScoreOne(t) ==
    /\ thr[t].pc = "score"
    /\ thr[t].i <= Len(thr[t].orders)
    /\ IF MatchScore(Lower(thr[t].q.natural_query.text), thr[t].parsed_date,
                     thr[t].orders[thr[t].i]) > 0
       THEN /\ dicts' = [dicts EXCEPT
                            ![ItemOf(t, thr[t].orders[thr[t].i].order_id)] =
                                MatchScore(Lower(thr[t].q.natural_query.text),
                                           thr[t].parsed_date, thr[t].orders[thr[t].i])]
            /\ thr' = Put(t, [thr[t] EXCEPT
                                 !.i = thr[t].i + 1,
                                 !.matching_orders =
                                     Append(thr[t].matching_orders, thr[t].orders[thr[t].i])])
       ELSE /\ dicts' = dicts
            /\ thr' = Put(t, [thr[t] EXCEPT !.i = thr[t].i + 1])
    /\ UNCHANGED <<now, store, parsed, call, searchCall, prev, cloud>>

\* the match_score that the sort key reads from the item dicts (0 when absent)
Keyed(t, matching_orders) ==
    [k \in 1..Len(matching_orders) |->
        [order |-> matching_orders[k],
         match_score |-> IF dicts[ItemOf(t, matching_orders[k].order_id)] = -1 THEN 0
                         ELSE dicts[ItemOf(t, matching_orders[k].order_id)]]]

\* line 140 and lines 195-211: the sort by the match_score of the item dicts,
\* and the result made of the sorted list
SortMatches(t) ==
    /\ thr[t].pc = "score"
    /\ thr[t].i > Len(thr[t].orders)
    /\ thr' = Put(t, Done(thr[t],
                  AfterSearch(Returned,
                              OrdersOf(SortByScore(Keyed(t, thr[t].matching_orders))),
                              thr[t].ops)))
    /\ UNCHANGED <<now, store, parsed, call, searchCall, prev, dicts, cloud>>

\* the caller has the result; the response and its item dicts are dropped
ThreadReturn(t) ==
    /\ thr[t].pc = "done"
    /\ thr' = [thr EXCEPT ![t] = IdleThread]
    /\ dicts' = Fresh(t)
    /\ UNCHANGED <<now, store, parsed, call, searchCall, prev, cloud>>

NextConc ==
    \E t \in Threads :
        \/ ThreadStart(t)
        \/ GetHandle(t)
        \/ Lookup(t)
        \/ SearchHandle(t)
        \/ ParseDate(t)
        \/ ReadCandidates(t)
        \/ ScoreOne(t)
        \/ SortMatches(t)
        \/ ThreadReturn(t)

\* two threads in track_order at the same time, over a store nobody writes to
SpecConc == InitConc /\ [][NextConc]_vars

(***************************************************************************)
(* Properties of the resolver                                              *)
(***************************************************************************)
\* an identifier the caller supplied
Supplied(x) == x # NONE /\ x # ""
SuppliedQuery(nq) == nq.given /\ nq.text # <<>>

\* the store reads among the collaborator calls of a result
StoreReads(ops) ==
    {i \in 1..Len(ops) : ops[i] \in {"get_item", "query_tracking", "query_customer", "scan"}}

\* the collaborator calls and the messages that belong to each branch
BranchOps(b) ==
    CASE b = "order_id" -> {"get_order_tracking_table", "get_item"}
      [] b = "tracking_id" -> {"get_order_tracking_table", "query_tracking"}
      [] b = "natural_query" -> {"get_order_tracking_table", "search_orders_by_natural_query",
                                 "parse_relative_date", "query_customer", "scan"}
      [] b = "customer_id" -> {"get_order_tracking_table", "query_customer"}
      [] OTHER -> {"get_order_tracking_table"}

BranchMsgs(b) ==
    CASE b = "order_id" -> {"order_status", "order_not_found", "error_order"}
      [] b = "tracking_id" -> {"order_status", "tracking_not_found", "error_tracking"}
      [] b = "natural_query" -> {"order_status", "matches", "no_match"}
      [] b = "customer_id" -> {"recent_orders", "no_customer_orders", "error_customer"}
      [] OTHER -> {"insufficient"}

\* C1: every call takes exactly the branch of the first supplied identifier in the
\* order order_id, tracking_id, natural_query, customer_id: its result is one of
\* that branch's results (or the report of an exception), only that branch's
\* collaborators are called, the one store read made is that branch's (no falling
\* through to a later branch), and with order_id supplied the free-text search,
\* its customer query and its scan are never invoked.
Thm_C1_Precedence ==
    call.done =>
        LET q == call.q
            r == call.res
            b == IF Supplied(q.order_id) THEN "order_id"
                 ELSE IF Supplied(q.tracking_id) THEN "tracking_id"
                 ELSE IF SuppliedQuery(q.natural_query) THEN "natural_query"
                 ELSE IF Supplied(q.customer_id) THEN "customer_id"
                 ELSE "none"
        IN  /\ r.msg \in BranchMsgs(b) \cup {"error_tracking_order"}
            /\ \A i \in 1..Len(r.ops) : r.ops[i] \in BranchOps(b)
            /\ Cardinality(StoreReads(r.ops)) <= 1
            /\ (r.msg \in BranchMsgs(b) /\ b # "none") => Cardinality(StoreReads(r.ops)) = 1
            /\ Supplied(q.order_id) =>
                   \A i \in 1..Len(r.ops) :
                       r.ops[i] \notin {"search_orders_by_natural_query", "scan",
                                        "query_customer", "parse_relative_date"}

\* C1 witness: order_id and natural_query both supplied, the order_id is unknown
\* and six orders match the text: the result is the order_id branch's not-found
W_C1_Precedence ==
    /\ call.done
    /\ store = BigStore
    /\ call.q.order_id = "O9"
    /\ call.q.natural_query = Query(Q_iphone)
    /\ call.env.fail = "none"
    /\ call.res.msg = "order_not_found"
    /\ call.res.ops = <<"get_order_tracking_table", "get_item">>

\* the positions in the store of the orders with a given tracking_id, and the one
\* the index hands out first
TrackingHits(tracking_id) == {i \in 1..Len(store) : store[i].tracking_id = tracking_id}
FirstReturned(hits, rev) ==
    IF rev THEN CHOOSE i \in hits : \A j \in hits : j <= i
    ELSE CHOOSE i \in hits : \A j \in hits : i <= j

\* C2: when the handle and the store read succeed, an order_id lookup returns Found
\* with the order of that order_id if the store holds one and NotFound otherwise;
\* a tracking_id lookup (order_id not supplied) returns Found with the first order
\* the tracking index returns, also when it returns several, and NotFound when it
\* returns none.
Thm_C2_ExactLookup ==
    (call.done /\ call.env.fail \in {"none", "handle2"}) =>
        LET q == call.q
            r == call.res
            byId == {i \in 1..Len(store) : store[i].order_id = q.order_id}
            byTr == TrackingHits(q.tracking_id)
        IN  /\ Supplied(q.order_id) =>
                   IF byId = {} THEN r.kind = "NotFound" /\ r.msg = "order_not_found"
                   ELSE r.kind = "Found" /\ \E i \in byId : r.orders = <<store[i]>>
            /\ (~Supplied(q.order_id) /\ Supplied(q.tracking_id)) =>
                   IF byTr = {} THEN r.kind = "NotFound" /\ r.msg = "tracking_not_found"
                   ELSE r.kind = "Found"
                        /\ r.orders = <<store[FirstReturned(byTr, call.env.rev)]>>

\* C2 witness: two orders share tracking_id T1 and the index returns the later one first
W_C2_ExactLookup ==
    /\ call.done
    /\ store = BigStore
    /\ ~Supplied(call.q.order_id)
    /\ call.q.tracking_id = "T1"
    /\ call.env = [fail |-> "none", rev |-> TRUE]
    /\ Cardinality(TrackingHits("T1")) = 2
    /\ call.res.kind = "Found"
    /\ call.res.orders[1].order_id = "O3"

\* the positions in the store of the candidates of a free-text call that score
\* above 0; none when the search did not get to read the store
Positive(c) ==
    LET query_lower == Lower(c.q.natural_query.text)
        date == parse_relative_date(query_lower)
    IN  IF c.env.fail # "none" \/ date.tag = "raise" THEN {}
        ELSE {i \in 1..Len(store) :
                 /\ Supplied(c.q.customer_id) => store[i].customer_id = c.q.customer_id
                 /\ MatchScore(query_lower, date, store[i]) > 0}

\* the call took the free-text branch
FreeText(c) ==
    /\ ~Supplied(c.q.order_id)
    /\ ~Supplied(c.q.tracking_id)
    /\ SuppliedQuery(c.q.natural_query)

\* C3: on the free-text branch no candidate scoring above 0 gives NotFound, exactly
\* one gives Found with that order, and two or more give Ambiguous, where the list
\* the branch holds is every candidate scoring above 0, each once, by descending
\* score, however many there are; the count it reports is their number and the
\* lines it shows are the first five of that list.
Thm_C3_FreeTextOutcome ==
    (call.done /\ FreeText(call)) =>
        LET r == call.res
            pos == Positive(call)
            query_lower == Lower(call.q.natural_query.text)
            score(o) == MatchScore(query_lower, parse_relative_date(query_lower), o)
        IN  /\ pos = {} => r.kind = "NotFound"
            /\ Cardinality(pos) = 1 => r.kind = "Found" /\ \E i \in pos : r.orders = <<store[i]>>
            /\ Cardinality(pos) >= 2 =>
                   /\ r.kind = "Ambiguous"
                   /\ Len(r.matching) = Cardinality(pos)
                   /\ {r.matching[k] : k \in 1..Len(r.matching)} = {store[i] : i \in pos}
                   /\ \A k \in 1..(Len(r.matching) - 1) :
                          score(r.matching[k]) >= score(r.matching[k + 1])
                   /\ r.total = Cardinality(pos)
                   /\ r.orders = SubSeq(r.matching, 1, IF r.total < 5 THEN r.total ELSE 5)

\* C3 witness: six orders match "iphone"; all six are in the list, five are shown
W_C3_FreeTextOutcome ==
    /\ call.done
    /\ FreeText(call)
    /\ store = BigStore
    /\ call.q.natural_query = Query(Q_iphone)
    /\ call.res.kind = "Ambiguous"
    /\ Cardinality(Positive(call)) = 6
    /\ Len(call.res.matching) = 6
    /\ Len(call.res.orders) = 5

\* C4 (as claimed): a call with order_id, tracking_id, customer_id and natural_query
\* all unset returns the "insufficient query information" result, whatever the
\* state of the store and of the store handle.
Orig_C4_EmptyQuery ==
    (/\ call.done
     /\ call.q.order_id = NONE
     /\ call.q.tracking_id = NONE
     /\ call.q.customer_id = NONE
     /\ call.q.natural_query = NoQuery)
        => call.res.msg = "insufficient"

\* C5: track_order never raises: whatever the inputs, the failures of the
\* collaborators and the defects of the records to format, the call returns one of
\* its results.
Thm_C5_NeverRaises ==
    call.done =>
        /\ ~call.res.raised
        /\ call.res.kind \in {"Found", "Ambiguous", "Recent", "NotFound"}

\* C5 witness: the list lines of two matches raise KeyError on a record without a
\* status, and the call returns the error report
W_C5_NeverRaises ==
    /\ call.done
    /\ store = DefectStore
    /\ FreeText(call)
    /\ call.res.msg = "error_tracking_order"
    /\ call.res.err = "KeyError_status"
    /\ ~call.res.raised

\* C6 (as claimed): whenever the store read of the selected branch fails, the
\* result is a NotFound that has the store's error text attached.
Orig_C6_StoreErrorAttached ==
    (/\ call.done
     /\ call.env.fail = "op"
     /\ StoreReads(call.res.ops) # {})
        => call.res.kind = "NotFound" /\ call.res.err = "store_error"

\* the call supplied customer_id and nothing else
CustomerOnly(c) ==
    /\ ~Supplied(c.q.order_id)
    /\ ~Supplied(c.q.tracking_id)
    /\ ~SuppliedQuery(c.q.natural_query)
    /\ Supplied(c.q.customer_id)

\* the calendar day an ISO date string names
DayOf(date) == CHOOSE d \in (FirstDay - 40)..(FirstDay + 40) : StrFTime(d) = date

\* C15: with customer_id alone and the customer query succeeding, the result is
\* NotFound when the customer has no orders; otherwise it lists orders of that
\* customer only, each once, latest order_date first, all of them when there are
\* 5 or fewer and else 5, none of which is older than an order left out.
Thm_C15_CustomerRecent ==
    (call.done /\ CustomerOnly(call) /\ call.env.fail \in {"none", "handle2"}) =>
        LET r == call.res
            mine == {i \in 1..Len(store) : store[i].customer_id = call.q.customer_id}
            shown == {r.orders[k] : k \in 1..Len(r.orders)}
        IN  IF mine = {}
            THEN r.kind = "NotFound" /\ r.msg = "no_customer_orders"
            ELSE /\ r.kind = "Recent"
                 /\ shown \subseteq {store[i] : i \in mine}
                 /\ Len(r.orders) = (IF Cardinality(mine) <= 5 THEN Cardinality(mine) ELSE 5)
                 /\ Cardinality(shown) = Len(r.orders)
                 /\ \A k \in 1..(Len(r.orders) - 1) :
                        DayOf(r.orders[k].order_date) >= DayOf(r.orders[k + 1].order_date)
                 /\ \A i \in mine :
                        store[i] \notin shown =>
                            \A o \in shown : DayOf(o.order_date) >= DayOf(store[i].order_date)

\* C15 witness: customer C1 has six orders; the five latest are listed, latest
\* first, and the oldest (O8) is left out
W_C15_CustomerRecent ==
    /\ call.done
    /\ CustomerOnly(call)
    /\ store = BigStore
    /\ call.q.customer_id = "C1"
    /\ call.env = [fail |-> "none", rev |-> TRUE]
    /\ call.res.kind = "Recent"
    /\ Len(call.res.orders) = 5
    /\ call.res.orders[1].order_id = "O7"
    /\ call.res.orders[2].order_id = "O2"
    /\ call.res.orders[5].order_id = "O4"
    /\ \A k \in 1..5 : call.res.orders[k].order_id # "O8"

\* C16 (as claimed): after any sequence of calls the result of a call depends
\* only on its query and the store, which the calls leave as it was: a call with
\* the query of an earlier call, served by the store in the same way, returns
\* the result the earlier call returned.
Orig_C16_ReadOnlyStateless ==
    (/\ call.done
     /\ prev.done
     /\ call.q = prev.q
     /\ call.env = prev.env)
        => call.res = prev.res

\* C16, as far as the code goes: the same for two calls made on the same day
SameDay_C16_ReadOnlyStateless ==
    (/\ call.done
     /\ prev.done
     /\ call.q = prev.q
     /\ call.env = prev.env
     /\ call.today = prev.today)
        => call.res = prev.res

\* C17: whatever the interleaving of the statements of concurrent calls, each
\* call returns the result it returns when it runs alone on the same store.
Thm_C17_ConcurrentCalls ==
    \A t \in DOMAIN thr :
        thr[t].pc = "done" =>
            thr[t].res = track_order(thr[t].q.order_id, thr[t].q.tracking_id,
                                     thr[t].q.customer_id, thr[t].q.natural_query,
                                     store, thr[t].env)

\* C17 witness: two free-text calls side by side, with different scores for the
\* same order (8 for "iphone last friday", 5 for "iphone"); the first has ranked
\* its list by its own scores while the other holds its scores for its own sort
W_C17_ConcurrentCalls ==
    /\ DOMAIN thr = Threads
    /\ thr[1].pc = "done"
    /\ thr[1].overlapped
    /\ thr[1].q.natural_query = Query(Q_iphone_last_friday)
    /\ thr[1].res.kind = "Ambiguous"
    /\ thr[1].res.matching[1].order_id = "O2"
    /\ thr[2].pc = "score"
    /\ thr[2].overlapped
    /\ thr[2].q.natural_query = Query(Q_iphone)
    /\ thr[2].i > Len(thr[2].orders)
    /\ dicts[ItemOf(1, "O2")] = 8
    /\ dicts[ItemOf(2, "O2")] = 5

(***************************************************************************)
(* Properties of the date parser                                           *)
(***************************************************************************)
\* C7: "last <weekday>" returns the most recent day strictly before today that
\* falls on that weekday: 1 to 7 days back, never today, and 7 days back exactly
\* when today is that weekday.
Thm_C7_LastWeekday ==
    (parsed.done /\ parsed.inp.ph.kind = "weekday") =>
        /\ parsed.ret.tag = "date"
        /\ \E k \in 1..7 :
               /\ parsed.ret.date = StrFTime(parsed.today - k)
               /\ Weekday(parsed.today - k) = parsed.inp.ph.w
               /\ \A j \in 1..(k - 1) : Weekday(parsed.today - j) # parsed.inp.ph.w
               /\ (k = 7) <=> (Weekday(parsed.today) = parsed.inp.ph.w)
        /\ parsed.ret.date # StrFTime(parsed.today)

\* C7 witness: "last <weekday>" asked on that weekday gives the day a week before
W_C7_LastWeekday ==
    /\ parsed.done
    /\ parsed.inp.ph.kind = "weekday"
    /\ Weekday(parsed.today) = parsed.inp.ph.w
    /\ parsed.ret = DateRet(StrFTime(parsed.today - 7))

\* the number of days a phrase stands for
PhraseDays(ph) ==
    CASE ph.kind = "days" -> ph.n
      [] ph.kind = "weeks" -> 7 * ph.n
      [] ph.kind = "months" -> 30 * ph.n
      [] ph.kind = "yesterday" -> 1
      [] ph.kind = "last_week" -> 7
      [] ph.kind = "last_month" -> 30

AgoKinds == {"days", "weeks", "months", "yesterday", "last_week", "last_month"}

\* C8 (as claimed): for every N, "N day(s) ago" is today minus N days, "N week(s)
\* ago" today minus 7*N days, "N month(s) ago" today minus 30*N days; "yesterday",
\* "last week" and "last month" are today minus 1, 7 and 30 days.
Orig_C8_AgoArithmetic ==
    (parsed.done /\ parsed.inp.ph.kind \in AgoKinds) =>
        /\ parsed.ret.tag = "date"
        /\ parsed.ret.date = StrFTime(parsed.today - PhraseDays(parsed.inp.ph))

\* C8, as far as the code goes: the same, for the phrases whose date is not before
\* 0001-01-01
InRange_C8_AgoArithmetic ==
    (/\ parsed.done
     /\ parsed.inp.ph.kind \in AgoKinds
     /\ parsed.today - PhraseDays(parsed.inp.ph) >= 1)
        => parsed.ret = DateRet(StrFTime(parsed.today - PhraseDays(parsed.inp.ph)))

Orig_C10_ClockIndependent ==
    parsed.done => parsed.ret = parse_relative_date(TextOf(parsed.inp))

\* the place of a kind of phrase in the order in which the patterns are tried
Priority(kind) ==
    CASE kind = "weekday" -> 0
      [] kind = "days" -> 1
      [] kind = "weeks" -> 2
      [] kind = "months" -> 3
      [] kind = "yesterday" -> 4
      [] kind = "last_week" -> 5
      [] kind = "last_month" -> 6

\* the date a phrase alone stands for
PhraseDate(ph, today) ==
    IF ph.kind = "weekday"
    THEN StrFTime(today - (CHOOSE k \in 1..7 : Weekday(today - k) = ph.w))
    ELSE StrFTime(today - PhraseDays(ph))

\* C18: of two phrases in one text the one whose pattern comes first in the order
\* last <weekday>, days ago, weeks ago, months ago, yesterday, last week, last
\* month decides the date, wherever the two stand in the text; the date returned
\* is the date of one of the two phrases, never a combination.
Thm_C18_FirstPatternWins ==
    parsed.done =>
        LET a == parsed.first
            b == parsed.second
        IN  /\ parsed.ret.tag = "date"
            /\ parsed.ret.date \in {PhraseDate(a, parsed.today), PhraseDate(b, parsed.today)}
            /\ Priority(a.kind) < Priority(b.kind)
                   => parsed.ret.date = PhraseDate(a, parsed.today)
            /\ Priority(b.kind) < Priority(a.kind)
                   => parsed.ret.date = PhraseDate(b, parsed.today)

\* C18 witness: "3 days ago and last friday" on a Wednesday is the Friday five
\* days back, though the days-ago phrase stands first in the text
W_C18_FirstPatternWins ==
    /\ parsed.done
    /\ parsed.first.kind = "days" /\ parsed.first.n = 3
    /\ parsed.second.kind = "weekday" /\ parsed.second.w = 4
    /\ Weekday(parsed.today) = 2
    /\ parsed.ret = DateRet(StrFTime(parsed.today - 5))
    /\ parsed.ret.date # StrFTime(parsed.today - 3)

(***************************************************************************)
(* Properties of the free-text search                                      *)
(***************************************************************************)
\* the search read the store and returned its list
SearchRead == searchCall.done /\ searchCall.env.fail = "none" /\ searchCall.ret.tag = "ok"

\* the orders the search had to consider
CandidateOrders ==
    {store[i] : i \in {j \in 1..Len(store) :
                          Supplied(searchCall.customer_id)
                              => store[j].customer_id = searchCall.customer_id}}

\* the score the returned list gives an order; 0 for an order it does not hold
ScoreOf(order) ==
    LET list == searchCall.ret.list
        at == {k \in 1..Len(list) : list[k].order = order}
    IN  IF at = {} THEN 0 ELSE list[CHOOSE k \in at : TRUE].match_score

\* the product name holds a vocabulary keyword that the query holds too
KeywordMatch(order) ==
    \E k \in 1..Len(product_keywords) :
        /\ Contains(product_keywords[k], Lower(searchCall.natural_query))
        /\ Contains(product_keywords[k], Lower(order.product_name))

\* the order's order_date is the date the query parses to
DateMatch(order) ==
    LET d == parse_relative_date(searchCall.natural_query)
    IN  d.tag = "date" /\ order.order_date = d.date

\* C11 (as claimed): of any two candidates that both match on a keyword, the one
\* whose order_date is the parsed date scores strictly higher than the one whose
\* order_date is not.
Orig_C11_DateOutranks ==
    SearchRead =>
        \A a \in CandidateOrders, b \in CandidateOrders :
            (KeywordMatch(a) /\ DateMatch(a) /\ KeywordMatch(b) /\ ~DateMatch(b))
                => ScoreOf(a) > ScoreOf(b)

\* C11 (amended): of two candidates with the same product name that match on a
\* keyword, the one whose order_date is the parsed date scores exactly 3 more than
\* the one whose order_date is not, and at least 5.
Thm_C11_DateOutranks ==
    SearchRead =>
        \A a \in CandidateOrders, b \in CandidateOrders :
            (/\ KeywordMatch(a) /\ DateMatch(a)
             /\ KeywordMatch(b) /\ ~DateMatch(b)
             /\ Lower(a.product_name) = Lower(b.product_name))
                => /\ ScoreOf(a) = ScoreOf(b) + 3
                   /\ ScoreOf(a) > ScoreOf(b)
                   /\ ScoreOf(a) >= 5

\* C11 witness: "iPhone last Friday" asked on Monday 2024-06-10: the iPhone 14 of
\* Friday scores 8, the iPhone 14 of Wednesday 5
W_C11_DateOutranks ==
    /\ SearchRead
    /\ store = SearchStore
    /\ searchCall.natural_query = Q_iphone_last_friday
    /\ searchCall.customer_id = NONE
    /\ DateMatch(store[3]) /\ ~DateMatch(store[4])
    /\ ScoreOf(store[3]) = 8
    /\ ScoreOf(store[4]) = 5

\* the query "iphone last Friday" (in any letter case) was asked on a Monday
FridayQueryOnMonday ==
    /\ SearchRead
    /\ Lower(searchCall.natural_query) = Lower(Q_iphone_last_friday)
    /\ Weekday(searchCall.today) = 0

\* C12 (as claimed): for "iphone last Friday" asked on a Monday, an order whose
\* product name contains "iphone" scores at least 5 when its order_date is the
\* preceding Friday and exactly 2 when it is another day.
Orig_C12_FridayExample ==
    FridayQueryOnMonday =>
        \A o \in CandidateOrders :
            Contains(S_iphone, Lower(o.product_name)) =>
                IF o.order_date = StrFTime(searchCall.today - 3)
                THEN ScoreOf(o) >= 5
                ELSE ScoreOf(o) = 2

\* C12 (amended): for "iphone last Friday" asked on a Monday, an order whose
\* product name contains "iphone" scores at least 8 when its order_date is the
\* preceding Friday and at least 5 when it is another day; an "iPhone 14" scores
\* exactly 8 and exactly 5.
Thm_C12_FridayExample ==
    FridayQueryOnMonday =>
        \A o \in CandidateOrders :
            Contains(S_iphone, Lower(o.product_name)) =>
                IF o.order_date = StrFTime(searchCall.today - 3)
                THEN /\ ScoreOf(o) >= 8
                     /\ Lower(o.product_name) = Lower(N_iphone14) => ScoreOf(o) = 8
                ELSE /\ ScoreOf(o) >= 5
                     /\ Lower(o.product_name) = Lower(N_iphone14) => ScoreOf(o) = 5

\* C12 witness: customer C1 asks on Monday 2024-06-10; the iPhone 14 of Friday
\* 2024-06-07 scores 8 and the iPhone 14 of 2024-06-14 scores 5
W_C12_FridayExample ==
    /\ FridayQueryOnMonday
    /\ store = SearchStore
    /\ searchCall.customer_id = "C1"
    /\ store[3].order_date = StrFTime(searchCall.today - 3)
    /\ store[7].order_date # StrFTime(searchCall.today - 3)
    /\ ScoreOf(store[3]) = 8
    /\ ScoreOf(store[7]) = 5

\* a occurs in b as a run of consecutive characters
Within(a, b) ==
    \E i \in 0..(Len(b) - Len(a)) : \A k \in 1..Len(a) : b[i + k] = a[k]

\* the words of a text: the first and last position of every maximal run of
\* characters that are not whitespace
WordSpans(s) ==
    {span \in (1..Len(s)) \X (1..Len(s)) :
        /\ span[1] <= span[2]
        /\ \A k \in span[1]..span[2] : s[k] \notin {" ", "\t", "\n"}
        /\ (span[1] = 1 \/ s[span[1] - 1] \in {" ", "\t", "\n"})
        /\ (span[2] = Len(s) \/ s[span[2] + 1] \in {" ", "\t", "\n"})}

\* the keyword signal: 2 for each vocabulary keyword within the query and the name
KeywordSignal(query, name) ==
    2 * Cardinality({w \in {product_keywords[k] : k \in 1..Len(product_keywords)} :
                        Within(w, query) /\ Within(w, name)})

\* the date signal: 3 if the query parses to the order's order_date
DateSignal(order) == IF DateMatch(order) THEN 3 ELSE 0

\* the word signal: 1 for each pair of a query word longer than 3 characters and a
\* word of the name of which one is within the other
WordSignal(query, name) ==
    Cardinality({pair \in WordSpans(query) \X WordSpans(name) :
                    LET qw == SubSeq(query, pair[1][1], pair[1][2])
                        pw == SubSeq(name, pair[2][1], pair[2][2])
                    IN  Len(qw) > 3 /\ (Within(qw, pw) \/ Within(pw, qw))})

\* C13: the score of every candidate is the sum of the three signals: 2 for each
\* vocabulary keyword within both the query and the product name (letter case
\* ignored), 3 if the query parses to the order's order_date, and 1 for each pair
\* of a query word longer than 3 characters and a product-name word of which one
\* is within the other; a candidate whose sum is 0 is not in the list.
Thm_C13_ScoreIsSum ==
    SearchRead =>
        \A o \in CandidateOrders :
            ScoreOf(o) = KeywordSignal(Lower(searchCall.natural_query), Lower(o.product_name))
                         + DateSignal(o)
                         + WordSignal(Lower(searchCall.natural_query), Lower(o.product_name))

\* C13 witness: the three signals together, two keywords and the date and an
\* overlapping word (8), and one query word that overlaps two words of a name (6)
W_C13_ScoreIsSum ==
    /\ SearchRead
    /\ store = SearchStore
    /\ searchCall.natural_query = Q_iphone_last_friday
    /\ searchCall.customer_id = NONE
    /\ KeywordSignal(Lower(searchCall.natural_query), Lower(store[3].product_name)) = 4
    /\ DateSignal(store[3]) = 3
    /\ WordSignal(Lower(searchCall.natural_query), Lower(store[3].product_name)) = 1
    /\ ScoreOf(store[3]) = 8
    /\ WordSignal(Lower(searchCall.natural_query), Lower(store[8].product_name)) = 2
    /\ ScoreOf(store[8]) = 6

\* the sum of the three signals of an order
SignalSum(o) ==
    KeywordSignal(Lower(searchCall.natural_query), Lower(o.product_name))
    + DateSignal(o)
    + WordSignal(Lower(searchCall.natural_query), Lower(o.product_name))

\* the place of an order in the response of the scan or the customer query
ResponsePlace(o) ==
    LET i == CHOOSE j \in 1..Len(store) : store[j] = o
    IN  IF searchCall.env.rev THEN Len(store) + 1 - i ELSE i

\* C14: the returned list holds exactly the candidates whose score is above 0,
\* each once, by descending score, and orders of equal score stand in the order
\* in which the scan or the customer query returned them.
Thm_C14_RankedList ==
    SearchRead =>
        LET list == searchCall.ret.list
        IN  /\ {list[k].order : k \in 1..Len(list)} = {o \in CandidateOrders : SignalSum(o) > 0}
            /\ Len(list) = Cardinality({o \in CandidateOrders : SignalSum(o) > 0})
            /\ \A k \in 1..Len(list) : list[k].match_score > 0
            /\ \A k \in 1..Len(list), l \in 1..Len(list) :
                   k < l =>
                       /\ list[k].match_score >= list[l].match_score
                       /\ list[k].match_score = list[l].match_score
                              => ResponsePlace(list[k].order) < ResponsePlace(list[l].order)

\* C14 witness: the scan returns the eight orders last to first; one scores 0 and
\* is left out, the two that score 6 and the three that score 5 keep that order
W_C14_RankedList ==
    /\ SearchRead
    /\ store = SearchStore
    /\ searchCall.natural_query = Q_iphone_last_friday
    /\ searchCall.customer_id = NONE
    /\ searchCall.env.rev
    /\ Weekday(searchCall.today) = 0
    /\ SignalSum(store[6]) = 0
    /\ [k \in 1..Len(searchCall.ret.list) |-> searchCall.ret.list[k].order.order_id]
           = <<"S3", "S8", "S1", "S7", "S4", "S2", "S5">>
    /\ [k \in 1..Len(searchCall.ret.list) |-> searchCall.ret.list[k].match_score]
           = <<8, 6, 6, 5, 5, 5, 3>>

\* the store reads a search made
SearchReads ==
    {searchCall.ret.ops[k] : k \in StoreReads(searchCall.ret.ops)}

\* C19: a search with customer_id supplied reads through the customer query only,
\* never through a scan, also when that query returns nothing or fails, and
\* every order it returns belongs to that customer; a search without customer_id
\* reads through the scan. In both cases the orders returned are the orders of
\* the candidate set (the customer's orders, or the whole store) that score above 0.
Thm_C19_CandidateSet ==
    (searchCall.done /\ searchCall.env.fail # "handle2"
     /\ parse_relative_date(searchCall.natural_query).tag # "raise") =>
        LET list == searchCall.ret.list
            returned == {list[k].order : k \in 1..Len(list)}
            ofCustomer == {store[i] : i \in {j \in 1..Len(store) :
                              store[j].customer_id = searchCall.customer_id}}
            wholeStore == {store[i] : i \in 1..Len(store)}
        IN  /\ searchCall.ret.tag = "ok"
            /\ IF Supplied(searchCall.customer_id)
               THEN /\ SearchReads = {"query_customer"}
                    /\ returned \subseteq ofCustomer
                    /\ searchCall.env.fail = "none"
                           => returned = {o \in ofCustomer : SignalSum(o) > 0}
               ELSE /\ SearchReads = {"scan"}
                    /\ searchCall.env.fail = "none"
                           => returned = {o \in wholeStore : SignalSum(o) > 0}
            /\ searchCall.env.fail = "op" => returned = {}

\* C19 witness: customer C9 has no orders; the search for "iphone" returns
\* nothing, through the customer query alone, though iPhones of other customers
\* are in the store
W_C19_CandidateSet ==
    /\ searchCall.done
    /\ store = SearchStore
    /\ searchCall.customer_id = "C9"
    /\ searchCall.natural_query = Q_iphone
    /\ searchCall.env.fail = "none"
    /\ searchCall.ret.list = <<>>
    /\ SearchReads = {"query_customer"}
    /\ \E i \in 1..Len(store) : SignalSum(store[i]) > 0

(***************************************************************************)
(* The credential-provider scripts (scripts/cognito_credentials_provider.py *)
(* and scripts/google_credentials_provider.py).  Both work on the OAuth2    *)
(* credential providers of one account and region, through the same        *)
(* control-plane client; each keeps the name of its provider in an SSM      *)
(* parameter of its own.                                                    *)
(***************************************************************************)
ProviderNames == {"customersupport-a", "customersupport-b"}

\* the parameter each script keeps its provider name in
ParamName(script) ==
    IF script = "cognito"
    THEN "/app/customersupport/agentcore/cognito_provider"
    ELSE "/app/customersupport/agentcore/google_provider"

\* what the services do to one command: whether get_parameter, put_parameter
\* and delete_parameter go through, whether the provider configuration can be
\* read, and whether the create, list and delete provider calls go through
CliEnvs ==
    [get : BOOLEAN, put : BOOLEAN, del : BOOLEAN, config : BOOLEAN,
     create : BOOLEAN, list : BOOLEAN, delete : BOOLEAN]

\* a command on its way: the providers, the value of the script's parameter,
\* the service calls made so far and the exit code once it has one
Running(P, v) == [providers |-> P, value |-> v, ops |-> <<>>, code |-> -1]
Did(r, op) == [r EXCEPT !.ops = Append(@, op)]
Exit(r, code) == [r EXCEPT !.code = code]

\* put_parameter with Overwrite=True; a ClientError is printed and swallowed
store_provider_name_in_ssm(provider_name, r, env) ==
    IF env.put
    THEN [Did(r, "put_parameter") EXCEPT !.value = provider_name]
    ELSE Did(r, "put_parameter failed")

\* get_parameter; any ClientError, and a parameter that is not there, give None
get_provider_name_from_ssm(r, env) == IF env.get THEN r.value ELSE NONE

\* the body of delete_ssm_param left out
delete_ssm_param_Skipped(r, env) == r

\* delete_parameter; a ClientError is printed and swallowed, and a parameter
\* that is not there is such an error
delete_ssm_param(r, env) ==
    IF r.value = NONE THEN Did(r, "delete_parameter absent")
    ELSE IF env.del THEN [Did(r, "delete_parameter") EXCEPT !.value = NONE]
    ELSE Did(r, "delete_parameter failed")

\* create_oauth2_credential_provider: a name is taken once
CreateProvider(name, r, env) ==
    IF env.create /\ name \notin r.providers
    THEN [Did(r, "create_provider") EXCEPT !.providers = @ \cup {name}]
    ELSE Did(r, "create_provider failed")

\* the five configuration values are read first; any exception ends the
\* command with exit code 1; the name is stored once the provider is there
create_cognito_provider(provider_name, r, env) ==
    IF ~env.config THEN Exit(Did(r, "get_ssm_parameter failed"), 1)
    ELSE IF CreateProvider(provider_name, r, env).providers = r.providers
    THEN Exit(CreateProvider(provider_name, r, env), 1)
    ELSE Exit(store_provider_name_in_ssm(provider_name,
                  CreateProvider(provider_name, r, env), env), 0)

\* the credentials file is read first (load_google_credentials exits with 1
\* when it cannot); the rest is create_cognito_provider's
create_google_provider(provider_name, r, env) ==
    IF ~env.config THEN Exit(Did(r, "load_google_credentials failed"), 1)
    ELSE IF CreateProvider(provider_name, r, env).providers = r.providers
    THEN Exit(CreateProvider(provider_name, r, env), 1)
    ELSE Exit(store_provider_name_in_ssm(provider_name,
                  CreateProvider(provider_name, r, env), env), 0)

\* delete_oauth2_credential_provider; any exception is printed and gives False
DeleteProvider(name, r, env) ==
    IF env.delete /\ name \in r.providers
    THEN [Did(r, "delete_provider") EXCEPT !.providers = @ \ {name}]
    ELSE Did(r, "delete_provider failed")

\* the name is among the providers listed; a failed listing is an empty one
find_provider_by_name(provider_name, r, env) ==
    env.list /\ provider_name \in r.providers

\* the create command: a name already in the parameter asks for confirmation
create(script, name, answer, r, env) ==
    IF Truthy(get_provider_name_from_ssm(r, env)) /\ ~answer
    THEN Exit(Did(r, "get_parameter"), 0)
    ELSE IF script = "cognito"
    THEN create_cognito_provider(name, Did(r, "get_parameter"), env)
    ELSE create_google_provider(name, Did(r, "get_parameter"), env)

\* the name the delete command works on: --name, or else what the parameter holds
DeleteName(name, r, env) ==
    IF Truthy(name) THEN name ELSE get_provider_name_from_ssm(r, env)

\* the parameter is read when no --name was given
DeleteRead(name, r) == IF Truthy(name) THEN r ELSE Did(r, "get_parameter")

\* the delete command after the name is known and the provider was found
DeleteFound(name, r, env) ==
    IF DeleteProvider(name, r, env).providers = r.providers
    THEN Exit(DeleteProvider(name, r, env), 1)
    ELSE Exit(delete_ssm_param(DeleteProvider(name, r, env), env), 0)

\* the delete command; confirm is the --confirm flag, answer the reply to the prompt
delete(script, name, confirm, answer, r, env) ==
    IF ~Truthy(DeleteName(name, r, env))
    THEN Exit(DeleteRead(name, r), 1)
    ELSE IF ~find_provider_by_name(DeleteName(name, r, env), r, env)
    THEN Exit(Did(DeleteRead(name, r), "list_providers"), 1)
    ELSE IF ~confirm /\ ~answer
    THEN Exit(Did(DeleteRead(name, r), "list_providers"), 0)
    ELSE DeleteFound(DeleteName(name, r, env), Did(DeleteRead(name, r), "list_providers"), env)

\* what has been seen so far: the scripts whose commands changed the set of
\* providers, and whether a write to an SSM parameter failed
Observe(script, r) ==
    [changers |-> observed.changers \cup (IF r.providers # providers THEN {script} ELSE {}),
     ssmFailed |-> observed.ssmFailed
                   \/ \E i \in 1..Len(r.ops) :
                          r.ops[i] \in {"put_parameter failed", "delete_parameter failed"}]

InitCli ==
    /\ now = FirstDay
    /\ store = <<>>
    /\ parsed = NoParse
    /\ call = NoCall
    /\ searchCall = NoSearch
    /\ prev = NoCall
    /\ thr = <<>>
    /\ dicts = <<>>
    /\ NoCloud

\* one run of `create --name NAME` of one of the scripts
CreateCall ==
    /\ cliRun = NoCli
    /\ \E script \in Scripts, name \in ProviderNames, answer \in BOOLEAN, env \in CliEnvs :
           LET r == create(script, name, answer, Running(providers, ssmParam[script]), env)
           IN  /\ cliRun' = [done |-> TRUE, command |-> "create", script |-> script,
                             name |-> name, given |-> name, confirm |-> FALSE,
                             answer |-> answer, env |-> env,
                             before |-> Running(providers, ssmParam[script]), ret |-> r]
               /\ providers' = r.providers
               /\ ssmParam' = [ssmParam EXCEPT ![script] = r.value]
               /\ observed' = Observe(script, r)
    /\ UNCHANGED <<now, store, parsed, call, searchCall, prev, thr, dicts>>

\* one run of `delete [--name NAME] [--confirm]` of one of the scripts
DeleteCall ==
    /\ cliRun = NoCli
    /\ \E script \in Scripts, name \in ProviderNames \cup {NONE}, confirm \in BOOLEAN,
          answer \in BOOLEAN, env \in CliEnvs :
           LET r == delete(script, name, confirm, answer,
                           Running(providers, ssmParam[script]), env)
           IN  /\ cliRun' = [done |-> TRUE, command |-> "delete", script |-> script,
                             name |-> DeleteName(name, Running(providers, ssmParam[script]), env),
                             given |-> name, confirm |-> confirm,
                             answer |-> answer, env |-> env,
                             before |-> Running(providers, ssmParam[script]), ret |-> r]
               /\ providers' = r.providers
               /\ ssmParam' = [ssmParam EXCEPT ![script] = r.value]
               /\ observed' = Observe(script, r)
    /\ UNCHANGED <<now, store, parsed, call, searchCall, prev, thr, dicts>>

\* the command has exited
CliReturn ==
    /\ cliRun # NoCli
    /\ cliRun' = NoCli
    /\ UNCHANGED <<now, store, parsed, call, searchCall, prev, thr, dicts,
                   providers, ssmParam, observed>>

NextCli == CreateCall \/ DeleteCall \/ CliReturn

\* any sequence of create and delete commands of the two scripts
SpecCli == InitCli /\ [][NextCli]_vars

(***************************************************************************)
(* Properties of the credential-provider scripts                           *)
(***************************************************************************)
\* the places in the command's service calls where op was made
CliOps(op) == {i \in 1..Len(cliRun.ret.ops) : cliRun.ret.ops[i] = op}

\* nothing but the commands of script s has changed the providers, and no
\* write to an SSM parameter has failed
OnlyScript(s) == observed.changers \subseteq {s} /\ ~observed.ssmFailed

\* the parameter of script s holds no name, or the name of a provider
NamesProvider(s) == ssmParam[s] # NONE => ssmParam[s] \in providers

\* C20: in each credential-provider script, after any sequence of create and
\* delete commands, whatever the answers to the prompts and whichever provider
\* calls fail, as long as the SSM writes succeed and nothing but the script's
\* own commands changes the providers: a name held by the script's parameter is
\* the name of an existing provider; create writes the parameter only after its
\* create call succeeded, and the provider is there; delete removes the
\* parameter only after its delete call succeeded, and the provider is gone
Thm_C20_ParameterNamesProvider ==
    /\ \A s \in Scripts : OnlyScript(s) => NamesProvider(s)
    /\ cliRun.done =>
         /\ \A i \in CliOps("put_parameter") \cup CliOps("put_parameter failed") :
                /\ cliRun.command = "create"
                /\ \E j \in CliOps("create_provider") : j < i
                /\ cliRun.name \in providers \ cliRun.before.providers
         /\ \A i \in CliOps("delete_parameter") \cup CliOps("delete_parameter failed")
                         \cup CliOps("delete_parameter absent") :
                /\ cliRun.command = "delete"
                /\ \E j \in CliOps("delete_provider") : j < i
                /\ cliRun.name \in cliRun.before.providers \ providers
         /\ cliRun.ret.value # cliRun.before.value
                => IF cliRun.ret.value = NONE
                   THEN CliOps("delete_parameter") # {}
                   ELSE CliOps("put_parameter") # {} /\ cliRun.ret.value = cliRun.name

\* C20 witness: the script replaced its provider name by a second one, and the
\* delete command that followed got past the prompt but its delete call
\* failed: both providers are still there and the parameter still holds the name
W_C20_ParameterNamesProvider ==
    /\ cliRun.done
    /\ cliRun.command = "delete"
    /\ cliRun.given = NONE
    /\ ~cliRun.confirm /\ cliRun.answer
    /\ cliRun.ret.code = 1
    /\ CliOps("delete_provider failed") # {}
    /\ OnlyScript(cliRun.script)
    /\ providers = ProviderNames
    /\ ssmParam[cliRun.script] = cliRun.name
    /\ ssmParam[cliRun.script] \in providers

\* the same without the condition on who changed the providers: it does not
\* hold, for `delete --name` of one script deletes the provider the other
\* script created and leaves the other script's parameter holding its name
AnyScript_C20_ParameterNamesProvider ==
    ~observed.ssmFailed => \A s \in Scripts : NamesProvider(s)

====
